---- MODULE Spec2Model ----
(***************************************************************************)
(* Session runtime of the nebulous.py game client                          *)
(* (src/src/nebulous/game/models/client.py, packets.py, __init__.py).      *)
(*                                                                         *)
(* Four cooperatively scheduled coroutines share the Client object:        *)
(*   main  Client.start() (connect(), then gather of the two loops)        *)
(*   send  Client.net_send_loop()                                          *)
(*   recv  Client.net_recv_loop()                                          *)
(*   host  the embedding program (stop() calls, packet_queue.put())        *)
(* pc[t] is the await at which coroutine t is suspended.  One action is    *)
(* the code a coroutine runs between two awaits; the socket writes and the *)
(* host callbacks are awaits, so the other coroutines may run there.       *)
(***************************************************************************)
EXTENDS Integers, Sequences, FiniteSets, TLC

\* ---------------------------------------------------------------- bounds
MaxWire == 4
MaxEnqueue == 2
MaxHostStops == 1
MaxGameData == 1
MaxSnapshots == 1
WorldSnapshots == 2
StopWire == 3
MaxChatCalls == 3
TickRun == 600

\* ------------------------------------------------------ program constants
TickModulus == 255

None == "None"
NoTick == -1
\* Client.game_player is None
NoPlayer == -1

Tasks == {"main", "send", "recv", "host"}

\* ClientState (models/__init__.py)
DISCONNECTED == "DISCONNECTED"
CONNECTING == "CONNECTING"
CONNECTED == "CONNECTED"
DISCONNECTING == "DISCONNECTING"

\* ConnectResult values on the wire (enums.py); 9 stands for a byte that is
\* no member of the enum.
SUCCESS == 0
ConnectResultMembers == {0, 1, 2, 3}
ResultBytes == {0, 1, 9}

\* Leading type bytes a datagram can carry, by what PacketHandler and
\* PacketType know of them.
UnknownTypes == {"UNKNOWN_200"}
ReadableTypes == {"CONNECT_RESULT_2", "GAME_DATA", "GAME_CHAT_MESSAGE"}
WriteOnlyTypes == {"CONTROL"}
UnhandledTypes == {"GAME_UPDATE"}
DefinedTypes == ReadableTypes \cup WriteOnlyTypes \cup UnhandledTypes
AllTypes == DefinedTypes \cup UnknownTypes

\* Player names a GAME_DATA packet can list: the client's random alias, or
\* another player's name; with the player index of each.
RandomAlias == "random_alias"
PlayerIndexOf(name) == IF name = RandomAlias THEN 7 ELSE 3

\* GameWorld has no map_size attribute until the first GAME_DATA is applied.
NoMapSize == -1

\* The GAME_DATA packets a server can send: the player names, the ids of
\* the ejects, dots and items, and map_size.
GameDataPayloads ==
    { [players |-> <<>>, ejects |-> <<>>, dots |-> <<1>>, items |-> <<>>,
       map_size |-> 100],
      [players |-> <<"other">>, ejects |-> <<5>>, dots |-> <<1>>, items |-> <<2>>,
       map_size |-> 200],
      [players |-> <<"other", RandomAlias>>, ejects |-> <<>>, dots |-> <<1, 2>>,
       items |-> <<>>, map_size |-> 200] }

\* What reading holds for a datagram that is no GAME_DATA.
NoPayload ==
    [players |-> <<>>, ejects |-> <<>>, dots |-> <<>>, items |-> <<>>,
     map_size |-> NoMapSize]

\* No datagram is being read.
NoDatagram == [name |-> None, packet |-> NoPayload]

\* Account.account_id of an account made without a ticket, and the ids an
\* account can have.
NotSignedIn == -1
AccountIds == {NotSignedIn, 5}

\* Packets the host can put on packet_queue.
QueueKinds == {"GAME_CHAT_MESSAGE", "CONTROL"}

VARIABLES
    pc,                 \* pc[t]: where coroutine t is suspended
    exc,                \* exc[t]: the exception that ended coroutine t
    state,              \* Client.state
    stop_event,         \* Client.stop_event.is_set()
    game_data_done,     \* Client.game_data_done.is_set()
    event_loop,         \* Client.event_loop (None or the send task)
    recv_loop,          \* Client.recv_loop  (None or the receive task)
    packet_queue,       \* Client.packet_queue
    control_ticks,      \* Client.control_ticks
    game_player,        \* Client.game_player (NoPlayer or the player index)
    gamedata_received,  \* local counter of net_recv_loop
    public_id,          \* Client.server_data.public_id
    private_id,         \* Client.server_data.private_id
    socket_closed,      \* Client.socket has been closed
    pending,            \* the datagram the send loop has serialized and is writing
    wire,               \* every datagram written to the socket, in order
    game_world,         \* Client.game_world
    reading,            \* the datagram packet_handler.read is working on
    client_id,          \* Client.server_data.client_id
    account_id,         \* Client.account.account_id
    port_seed,          \* Client.port_seed
    port,               \* Client.port
    calc,               \* the call of a serializer or codec that is being evaluated
    game_id,            \* Client.game_id
    split_multiplier,   \* Client.config.split_multiplier
    hist                \* history (ghost) record, see Init

vars == <<pc, exc, state, stop_event, game_data_done, event_loop, recv_loop,
          packet_queue, control_ticks, game_player, gamedata_received,
          public_id, private_id, socket_closed, pending, wire, game_world,
          reading, client_id, account_id, port_seed, port, calc, game_id,
          split_multiplier, hist>>

\* ------------------------------------------------------------- helpers
\* A datagram on the wire: its packet type, the tick byte of a CONTROL, the
\* coroutine that wrote it and, for a packet taken from packet_queue, the
\* number the host enqueued it under.
\* KeepAlive(PacketType.KEEP_ALIVE, server_data.public_id,
\*           server_data.private_id, inet_aton(ip), server_data.client_id)
KeepAliveIdsMutant == <<0, private_id, client_id>>
KeepAliveIds == <<public_id, private_id, client_id>>

\* Disconnect(PacketType.DISCONNECT, server_data.public_id,
\*            server_data.private_id, server_data.client_id)
DisconnectIds == <<public_id, private_id, client_id>>

\* The session identifiers a packet of the type is built with.
IdsCarried(type) ==
    CASE type = "KEEP_ALIVE" -> KeepAliveIds
      [] type = "DISCONNECT" -> DisconnectIds
      [] OTHER -> <<>>

\* Control(PacketType.CONTROL, 0.0, 0.0, ControlFlags.NONE, ...) of the
\* heartbeat; a CONTROL from packet_queue has the fields the host gave it.
HeartbeatControl == [angle |-> 0, speed |-> 0, flags |-> "NONE"]

HostControl == [angle |-> 1, speed |-> 1, flags |-> "NONE"]

NoControl == [angle |-> 0, speed |-> 0, flags |-> None]

ControlCarried(type, seq) ==
    IF type # "CONTROL" THEN NoControl
    ELSE IF seq = 0 THEN HeartbeatControl ELSE HostControl

\* ConnectRequest3(..., MUTF8String.from_py_string(self.random_alias), ...)
AliasCarried(type) == IF type = "CONNECT_REQUEST_3" THEN RandomAlias ELSE None

\* Control.write: stream.write_int8(client.game_player.index)
PlayerCarried(type) == IF type = "CONTROL" THEN game_player ELSE NoPlayer

\* ConnectRequest3.write: while client.server_data.client_id == 0:
\*     client.server_data.client_id = client.rng.nextInt()
ClientIdForRequestMutant(id) == id
ClientIdForRequest(id) == IF id = 0 THEN 34 ELSE id

\* stream.write_int32(client.server_data.client_id) of every packet the
\* client writes; ConnectRequest3.write redraws a client_id of 0 first.
ClientIdCarried(type) ==
    CASE type = "CONNECT_REQUEST_3" -> ClientIdForRequest(client_id)
      [] type = None -> 0
      [] OTHER -> client_id

Datagram(type, tick, by, seq) ==
    [type |-> type, tick |-> tick, by |-> by, seq |-> seq, ids |-> IdsCarried(type),
     control |-> ControlCarried(type, seq), alias |-> AliasCarried(type),
     player |-> PlayerCarried(type), client_id |-> ClientIdCarried(type)]

\* The send loop is writing nothing.
NoPending == Datagram(None, NoTick, None, 0)

IsPrefix(s, t) == Len(s) =< Len(t) /\ \A i \in 1..Len(s) : s[i] = t[i]

SetPc(t, p) == pc' = [pc EXCEPT ![t] = p]

Raise(t, e) ==
    /\ pc' = [pc EXCEPT ![t] = "fin"]
    /\ exc' = [exc EXCEPT ![t] = e]

\* Client has no game_id attribute until connect() has assigned it.
NoGameId == -1

\* The ConnectResult2 packets with result SUCCESS a server can send:
\* public_id, private_id, game_id and split_multiplier.
ConnectResultPackets ==
    { [public_id |-> 11, private_id |-> 12, game_id |-> 13, split_multiplier |-> "X16"],
      [public_id |-> 21, private_id |-> 22, game_id |-> 23, split_multiplier |-> "X64"] }

\* The packet of the session of Spec.
FirstResult ==
    [public_id |-> 11, private_id |-> 12, game_id |-> 13, split_multiplier |-> "X16"]

\* No ConnectResult2 has been read.
NoResult ==
    [public_id |-> 0, private_id |-> 0, game_id |-> NoGameId, split_multiplier |-> None]

\* No serializer or codec is being evaluated.
NoCalc == [op |-> None]

\* Client.next_port(): port = self.port_seed + 27900; self.port_seed += 1;
\* self.port_seed %= 2; return port
next_port(seed) == [port |-> seed + 27900, port_seed |-> (seed + 1) % 2]

\* Client.__init__ with an account whose account_id is id, where
\* self.rng.nextInt(2) gives seed: self.port_seed = seed; self.port = self.next_port();
\* and self.rng.nextInt() gives cid: self.server_data.client_id = cid;
\* c is the call under evaluation.
InitDraws(id, seed, cid, c) ==
    /\ pc = [t \in Tasks |-> IF t \in {"main", "host"} THEN "idle" ELSE "notstarted"]
    /\ exc = [t \in Tasks |-> None]
    /\ state = DISCONNECTED
    /\ stop_event = FALSE
    /\ game_data_done = FALSE
    /\ event_loop = None
    /\ recv_loop = None
    /\ packet_queue = <<>>
    /\ control_ticks = 0
    /\ game_player = NoPlayer
    /\ gamedata_received = 0
    /\ public_id = 0
    /\ private_id = 0
    /\ socket_closed = FALSE
    /\ pending = NoPending
    /\ wire = <<>>
    /\ game_world = [players |-> <<>>, ejects |-> <<>>, dots |-> <<>>,
                     items |-> <<>>, map_size |-> NoMapSize]
    /\ reading = NoDatagram
    /\ client_id = cid
    /\ account_id = id
    /\ port_seed = next_port(seed).port_seed
    /\ port = next_port(seed).port
    /\ calc = c
    /\ game_id = NoGameId
    /\ split_multiplier = "X8"
    /\ hist = [ gotSuccess |-> FALSE,    \* a CONNECT_RESULT_2 with Success arrived
                connectFailed |-> FALSE, \* connect() returned False
                gateSets |-> 0,          \* calls of game_data_done.set()
                snapshots |-> 0,         \* GAME_DATA datagrams received
                ignored |-> None,        \* the last datagram dropped without a read()
                closes |-> 0,            \* calls of socket.close()
                hostStops |-> 0,         \* calls of stop() made by the host
                lateStops |-> 0,         \* calls of stop() made after one that passed
                stopsPassed |-> 0,       \* calls of stop() that passed its guard
                stopBy |-> None,         \* the coroutine whose stop() passed the guard
                chatCalls |-> 0,         \* calls of send_game_message / send_clan_message
                enqueued |-> 0,          \* packets the host has enqueued
                ports |-> <<>>,          \* the port of every sock_connect, in order
                result |-> NoResult ]    \* the last ConnectResult2 that read() returned

\* Client.__init__ of a client that drew the client id 33.
InitClient(id, seed, c) == InitDraws(id, seed, 33, c)

\* Client.__init__ with an account whose account_id is id.
InitAccount(id) == InitClient(id, 0, NoCalc)

\* Client("", region): the client of tests/test_connect.py.
Init == InitAccount(NotSignedIn)

\* A client of either kind of account.
InitChat == \E id \in AccountIds : InitAccount(id)

Bump(f) == hist' = [hist EXCEPT ![f] = @ + 1]

\* ------------------------------------------------------------ socket
\* loop.sock_sendall(self.socket, data) under asyncio.wait_for(..., 5.0):
\* the datagram is written, or the write times out, or the socket has been
\* closed and the write raises OSError.
SockWritten(d) == ~socket_closed /\ wire' = Append(wire, d)

\* ------------------------------------------------------------ Client.stop
\* The guard of stop(): "Client is already stopped."
AlreadyStoppedMutant == FALSE
AlreadyStopped == event_loop = None \/ recv_loop = None

\* Where coroutine t continues when its stop() call returns.
AfterStop(t) == IF t = "host" THEN "idle" ELSE "done"

\* stop() up to its first await: the early return, or the flags and the
\* Disconnect packet.  h is the history record the call starts from.
StopCall(t, h) ==
    IF AlreadyStopped
    THEN /\ SetPc(t, AfterStop(t))
         /\ hist' = [h EXCEPT !.lateStops = IF h.stopsPassed > 0 THEN @ + 1 ELSE @]
         /\ UNCHANGED <<state, stop_event, event_loop, recv_loop>>
    ELSE /\ state' = DISCONNECTING
         /\ stop_event' = TRUE
         /\ event_loop' = None
         /\ recv_loop' = None
         /\ SetPc(t, "stop_send")
         /\ hist' = [h EXCEPT !.stopsPassed = @ + 1, !.stopBy = t]

\* stop(): await wait_for(sock_sendall(disconnect_packet.write(self)), 5.0);
\* a TimeoutError is caught and logged.
StopSendDisconnect(t) ==
    /\ pc[t] = "stop_send"
    /\ \/ SockWritten(Datagram("DISCONNECT", NoTick, t, 0))
       \/ UNCHANGED wire
    /\ SetPc(t, "stop_cb")
    /\ UNCHANGED <<exc, state, stop_event, game_data_done, event_loop, recv_loop,
                   packet_queue, control_ticks, game_player, gamedata_received,
                   public_id, private_id, socket_closed, pending, hist,
                   game_world, reading, client_id, account_id, port_seed, port, calc, game_id, split_multiplier>>

\* stop(): on_disconnect has returned; socket.close(); state = DISCONNECTED.
StopClose(t) ==
    /\ pc[t] = "stop_cb"
    /\ socket_closed' = TRUE
    /\ state' = DISCONNECTED
    /\ Bump("closes")
    /\ SetPc(t, AfterStop(t))
    /\ UNCHANGED <<exc, stop_event, game_data_done, event_loop, recv_loop,
                   packet_queue, control_ticks, game_player, gamedata_received,
                   public_id, private_id, pending, wire,
                   game_world, reading, client_id, account_id, port_seed, port, calc, game_id, split_multiplier>>

\* stop(): await InternalCallbacks.on_disconnect(...) raises: the exception
\* leaves stop() before socket.close() and the last state assignment.
StopCallbackRaises(t) ==
    /\ pc[t] = "stop_cb"
    /\ pc' = [pc EXCEPT ![t] = AfterStop(t)]
    /\ exc' = [exc EXCEPT ![t] = "CallbackError"]
    /\ UNCHANGED <<state, stop_event, game_data_done, event_loop, recv_loop,
                   packet_queue, control_ticks, game_player, gamedata_received,
                   public_id, private_id, socket_closed, pending, wire, hist,
                   game_world, reading, client_id, account_id, port_seed, port, calc, game_id, split_multiplier>>

\* ------------------------------------------------------------ Client.start
\* start() calls connect(), which sets state = CONNECTING and then awaits
\* loop.sock_connect(self.socket, (self.server_data.ip, self.port)).
StartCall ==
    /\ pc["main"] = "idle"
    /\ state' = CONNECTING
    /\ hist' = [hist EXCEPT !.ports = Append(@, port)]
    /\ SetPc("main", "connect_send")
    /\ UNCHANGED <<exc, stop_event, game_data_done, event_loop, recv_loop,
                   packet_queue, control_ticks, game_player, gamedata_received,
                   public_id, private_id, socket_closed, pending, wire,
                   game_world, reading, client_id, account_id, port_seed, port, calc, game_id, split_multiplier>>

\* start(): connect() returned False: "Client failed to connect."; await self.stop().
ConnectReturnsFalse ==
    /\ StopCall("main", [hist EXCEPT !.connectFailed = TRUE])
    /\ UNCHANGED <<exc, game_data_done, packet_queue, control_ticks, game_player,
                   gamedata_received, public_id, private_id, socket_closed, pending,
                   game_world, reading, account_id, port_seed, port, calc, game_id,
                   split_multiplier>>

\* connect(): sock_connect, then the CONNECT_REQUEST_3 is written.
ConnectSendRequest ==
    /\ pc["main"] = "connect_send"
    /\ SockWritten(Datagram("CONNECT_REQUEST_3", NoTick, "main", 0))
    /\ client_id' = ClientIdForRequest(client_id)
    /\ SetPc("main", "connect_recv")
    /\ UNCHANGED <<exc, state, stop_event, game_data_done, event_loop, recv_loop,
                   packet_queue, control_ticks, game_player, gamedata_received,
                   public_id, private_id, socket_closed, pending, hist,
                   game_world, reading, account_id, port_seed, port, calc, game_id, split_multiplier>>

\* connect(): sock_connect timed out, or the write of the request did, after
\* connect_request_3_packet.write(self) had been evaluated.
ConnectSendTimeout ==
    /\ pc["main"] = "connect_send"
    /\ ConnectReturnsFalse
    /\ client_id' \in {client_id, ClientIdForRequest(client_id)}
    /\ UNCHANGED wire

\* connect(): no datagram within 5 s.
ConnectRecvTimeout ==
    /\ pc["main"] = "connect_recv"
    /\ ConnectReturnsFalse
    /\ UNCHANGED <<wire, client_id>>

\* connect(): a datagram arrived and ConnectResult2.read parsed it.  The
\* leading type byte is skipped, not compared; a result byte that is no
\* ConnectResult member raises ValueError out of start().
ConnectRecvRaises ==
    /\ pc["main"] = "connect_recv"
    /\ \E type \in {"CONNECT_RESULT_2", "GAME_DATA"}, result \in ResultBytes :
          result \notin ConnectResultMembers
    /\ pc' = [pc EXCEPT !["main"] = "done"]
    /\ exc' = [exc EXCEPT !["main"] = "ValueError"]
    /\ UNCHANGED <<state, stop_event, game_data_done, event_loop, recv_loop,
                   packet_queue, control_ticks, game_player, gamedata_received,
                   public_id, private_id, socket_closed, pending, wire, hist,
                   game_world, reading, client_id, account_id, port_seed, port, calc, game_id, split_multiplier>>

\* connect(): conn_result.result != ConnectResult.SUCCESS: return False.
ConnectRecvRefused ==
    /\ pc["main"] = "connect_recv"
    /\ \E type \in {"CONNECT_RESULT_2", "GAME_DATA"}, result \in ResultBytes :
          result \in ConnectResultMembers /\ result # SUCCESS
    /\ ConnectReturnsFalse
    /\ UNCHANGED <<wire, client_id>>

\* self.config.split_multiplier = conn_result.split_multiplier
RecordedSplitMutant(configured, packet) == configured
RecordedSplit(configured, packet) == packet.split_multiplier

\* connect(): result SUCCESS: the identifiers are recorded and connect()
\* returns True; start() sets state = CONNECTED and creates the two tasks.
ConnectRecvSuccessOf(packets) ==
    /\ pc["main"] = "connect_recv"
    /\ \E type \in {"CONNECT_RESULT_2", "GAME_DATA"}, packet \in packets :
          /\ game_id' = packet.game_id
          /\ split_multiplier' = RecordedSplit(split_multiplier, packet)
          /\ public_id' = packet.public_id
          /\ private_id' = packet.private_id
          /\ hist' = [hist EXCEPT !.gotSuccess = (type = "CONNECT_RESULT_2"),
                                  !.result = packet]
    /\ state' = CONNECTED
    /\ event_loop' = "send"
    /\ recv_loop' = "recv"
    /\ pc' = [pc EXCEPT !["main"] = "gather", !["send"] = "loop", !["recv"] = "top"]
    /\ UNCHANGED <<exc, stop_event, game_data_done, packet_queue, control_ticks,
                   game_player, gamedata_received, socket_closed, pending, wire,
                   game_world, reading, client_id, account_id, port_seed, port, calc>>

ConnectRecvSuccess == ConnectRecvSuccessOf({FirstResult})

\* start(): await asyncio.gather(self.event_loop, self.recv_loop) returns
\* when both tasks are done, and raises as soon as one of them has raised.
StartReturned ==
    \/ pc["main"] = "done"
    \/ /\ pc["main"] = "gather"
       /\ \/ pc["send"] = "done" /\ pc["recv"] = "done"
          \/ \E t \in {"send", "recv"} : pc[t] = "done" /\ exc[t] \notin {None, "TimeoutError"}

\* ------------------------------------------------- loops: the finally block
\* finally: if self.state != DISCONNECTING and not self.stop_event.is_set():
\*              await self.stop()
LoopFinally(t) ==
    /\ pc[t] = "fin"
    /\ IF state # DISCONNECTING /\ ~stop_event
       THEN StopCall(t, hist)
       ELSE /\ SetPc(t, "done")
            /\ UNCHANGED <<state, stop_event, event_loop, recv_loop, hist>>
    /\ UNCHANGED <<exc, game_data_done, packet_queue, control_ticks, game_player,
                   gamedata_received, public_id, private_id, socket_closed,
                   pending, wire,
                   game_world, reading, client_id, account_id, port_seed, port, calc, game_id, split_multiplier>>

\* ------------------------------------------------- Client.net_recv_loop
\* while not self.stop_event.is_set(): the position after one iteration.
RecvLoopNext == IF stop_event THEN "fin" ELSE "recv"

\* The first evaluation of the loop condition, when the task starts to run.
RecvLoopStart ==
    /\ pc["recv"] = "top"
    /\ SetPc("recv", RecvLoopNext)
    /\ UNCHANGED <<exc, state, stop_event, game_data_done, event_loop, recv_loop,
                   packet_queue, control_ticks, game_player, gamedata_received,
                   public_id, private_id, socket_closed, pending, wire, hist,
                   game_world, reading, client_id, account_id, port_seed, port, calc, game_id, split_multiplier>>

\* if not self.game_data_done.is_set(): GAME_DATA is counted, any other
\* packet name sets the gate.
GateAfterMutant(done, name) == name # "GAME_DATA"
GateAfter(done, name) == IF ~done /\ name # "GAME_DATA" THEN TRUE ELSE done

GameDataCountAfter(done, name, n) == IF ~done /\ name = "GAME_DATA" THEN n + 1 ELSE n

\* The gate bookkeeping of one received datagram of a defined packet type.
GateStep(name, h) ==
    /\ game_data_done' = GateAfter(game_data_done, name)
    /\ gamedata_received' = GameDataCountAfter(game_data_done, name, gamedata_received)
    /\ hist' = [h EXCEPT !.gateSets = IF ~game_data_done /\ game_data_done' THEN @ + 1 ELSE @,
                            !.snapshots = IF name = "GAME_DATA" THEN @ + 1 ELSE @]

\* A datagram can arrive while the socket is open.
Arrives(name) ==
    /\ pc["recv"] = "recv"
    /\ ~socket_closed
    /\ (name = "GAME_DATA" /\ ~game_data_done) => gamedata_received < MaxGameData

\* data[0] in value2member_map
IsDefinedTypeMutant(name) == TRUE
IsDefinedType(name) == name \in DefinedTypes

\* data[0] not in value2member_map: logged, continue.
RecvUnknownType ==
    /\ \E name \in AllTypes :
          /\ Arrives(name)
          /\ ~IsDefinedType(name)
          /\ hist' = [hist EXCEPT !.ignored = name]
    /\ SetPc("recv", RecvLoopNext)
    /\ UNCHANGED <<exc, state, stop_event, game_data_done, event_loop, recv_loop,
                   packet_queue, control_ticks, game_player, gamedata_received,
                   public_id, private_id, socket_closed, pending, wire,
                   game_world, reading, client_id, account_id, port_seed, port, calc, game_id, split_multiplier>>

\* A defined packet type PacketHandler has no handler for: continue.
RecvUnhandledType ==
    /\ \E name \in AllTypes \ (ReadableTypes \cup WriteOnlyTypes) :
          /\ Arrives(name)
          /\ IsDefinedType(name)
          /\ GateStep(name, [hist EXCEPT !.ignored = name])
    /\ SetPc("recv", RecvLoopNext)
    /\ UNCHANGED <<exc, state, stop_event, event_loop, recv_loop, packet_queue,
                   control_ticks, game_player, public_id, private_id,
                   socket_closed, pending, wire,
                   game_world, reading, client_id, account_id, port_seed, port, calc, game_id, split_multiplier>>

\* A packet type whose handler class only writes: Packet.read raises
\* NotImplementedError.
RecvWriteOnlyType ==
    /\ \E name \in WriteOnlyTypes :
          /\ Arrives(name)
          /\ GateStep(name, hist)
          /\ reading' = [name |-> name, packet |-> NoPayload]
    /\ Raise("recv", "NotImplementedError")
    /\ UNCHANGED <<state, stop_event, event_loop, recv_loop, packet_queue,
                   control_ticks, game_player, public_id, private_id,
                   socket_closed, pending, wire,
                   game_world, client_id, account_id, port_seed, port, calc, game_id, split_multiplier>>

\* ------------------------------------------------- InternalCallbacks.on_game_data
\* The position of the player named random_alias in the player list, or 0.
AliasAtMutant(players) == IF players # <<>> THEN 1 ELSE 0
AliasAt(players) ==
    IF \E i \in 1..Len(players) : players[i] = RandomAlias
    THEN CHOOSE i \in 1..Len(players) :
            /\ players[i] = RandomAlias
            /\ \A j \in 1..(i - 1) : players[j] # RandomAlias
    ELSE 0

\* GameSize.from_map_size(packet.map_size)
from_map_size(m) == m

\* The loop over packet.player_objects up to, and without, the player at
\* position stop: client.game_world.players.append(game_player).
PlayersApplied(w, packet, stop) ==
    [w EXCEPT !.players = @ \o SubSeq(packet.players, 1, stop - 1)]

\* The rest of on_game_data from the player at position from on: the
\* remaining players, then the dots, the ejects and the items are appended
\* and map_size is set.
SnapshotApplied(w, packet, from) ==
    [players |-> w.players \o SubSeq(packet.players, from, Len(packet.players)),
     dots |-> w.dots \o packet.dots,
     ejects |-> w.ejects \o packet.ejects,
     items |-> w.items \o packet.items,
     map_size |-> from_map_size(packet.map_size)]

\* GAME_DATA: GameData.read, then InternalCallbacks.on_game_data walks the
\* players; at the player named random_alias it awaits on_player_ready.
\* Other readable packets go to their host callback.
RecvReadableType(cap) ==
    /\ \E name \in ReadableTypes :
         /\ Arrives(name)
         /\ GateStep(name, hist)
         /\ IF name = "GAME_DATA"
            THEN /\ hist.snapshots < cap
                 /\ \E packet \in GameDataPayloads :
                      /\ reading' = [name |-> name, packet |-> packet]
                      /\ IF AliasAt(packet.players) > 0
                         THEN /\ game_world' = PlayersApplied(game_world, packet,
                                                              AliasAt(packet.players))
                              /\ SetPc("recv", "player_ready_cb")
                         ELSE /\ game_world' = SnapshotApplied(game_world, packet, 1)
                              /\ SetPc("recv", "packet_cb")
            ELSE /\ reading' = [name |-> name, packet |-> NoPayload]
                 /\ SetPc("recv", "packet_cb")
                 /\ UNCHANGED game_world
    /\ UNCHANGED <<exc, state, stop_event, event_loop, recv_loop, packet_queue,
                   control_ticks, game_player, public_id, private_id,
                   socket_closed, pending, wire, client_id, account_id, port_seed, port, calc, game_id, split_multiplier>>

\* client.game_player = await InternalCallbacks.on_player_ready(client, game_player);
\* then on_game_data runs on to its host callback.
PlayerReadyReturns ==
    /\ pc["recv"] = "player_ready_cb"
    /\ game_player' = PlayerIndexOf(reading.packet.players[AliasAt(reading.packet.players)])
    /\ game_world' = SnapshotApplied(game_world, reading.packet,
                                     AliasAt(reading.packet.players))
    /\ SetPc("recv", "packet_cb")
    /\ UNCHANGED <<exc, state, stop_event, game_data_done, event_loop, recv_loop,
                   packet_queue, control_ticks, gamedata_received, public_id,
                   private_id, socket_closed, pending, wire, hist,
                   reading, client_id, account_id, port_seed, port, calc, game_id, split_multiplier>>

\* The host callback of the packet returns, or raises.
PacketCallbackReturns ==
    /\ pc["recv"] = "packet_cb"
    /\ \/ SetPc("recv", RecvLoopNext) /\ reading' = NoDatagram /\ UNCHANGED exc
       \/ Raise("recv", "CallbackError") /\ UNCHANGED reading
    /\ UNCHANGED <<state, stop_event, game_data_done, event_loop, recv_loop,
                   packet_queue, control_ticks, game_player, gamedata_received,
                   public_id, private_id, socket_closed, pending, wire, hist,
                   game_world, client_id, account_id, port_seed, port, calc, game_id, split_multiplier>>

\* sock_recv timed out: except TimeoutError: "Socket timed out."
RecvTimeout ==
    /\ pc["recv"] = "recv"
    /\ Raise("recv", "TimeoutError")
    /\ UNCHANGED <<state, stop_event, game_data_done, event_loop, recv_loop,
                   packet_queue, control_ticks, game_player, gamedata_received,
                   public_id, private_id, socket_closed, pending, wire, hist,
                   game_world, reading, client_id, account_id, port_seed, port, calc, game_id, split_multiplier>>

\* ------------------------------------------------- Control.write
\* stream.write_int8(client.game_player.index): AttributeError while
\* client.game_player is None; nothing has been returned to the caller.
ControlWriteRaisesMutant(player) == FALSE
ControlWriteRaises(player) == player = NoPlayer

\* client.control_ticks = (client.control_ticks + 1) % 0xff
TickAfter(n) == (n + 1) % TickModulus

\* ------------------------------------------------- Client.net_send_loop
\* await self.game_data_done.wait()
GateOpenMutant(done) == TRUE
GateOpen(done) == done

\* while ... and not self.stop_event.is_set(): the loop ends.
SendLoopStopObserved ==
    /\ pc["send"] = "loop"
    /\ GateOpen(game_data_done)
    /\ stop_event
    /\ SetPc("send", "fin")
    /\ UNCHANGED <<exc, state, stop_event, game_data_done, event_loop, recv_loop,
                   packet_queue, control_ticks, game_player, gamedata_received,
                   public_id, private_id, socket_closed, pending, wire, hist,
                   game_world, reading, client_id, account_id, port_seed, port, calc, game_id, split_multiplier>>

\* if self.packet_queue.empty():
QueueEmptyMutant(queue) == TRUE
QueueEmpty(queue) == queue = <<>>

\* The queue is empty and the heartbeat is due: the KeepAlive is serialized.
\* at is where the loop stands: "loop" when it has been resumed from an
\* await, "busy" when it has come round by continue.
SendLoopHeartbeatFrom(at, cap) ==
    /\ pc["send"] = at
    /\ GateOpen(game_data_done)
    /\ ~stop_event
    /\ QueueEmpty(packet_queue)
    /\ Len(wire) < cap
    /\ pending' = Datagram("KEEP_ALIVE", NoTick, "send", 0)
    /\ SetPc("send", "send_keep_alive")
    /\ UNCHANGED <<exc, state, stop_event, game_data_done, event_loop, recv_loop,
                   packet_queue, control_ticks, game_player, gamedata_received,
                   public_id, private_id, socket_closed, wire, hist,
                   game_world, reading, client_id, account_id, port_seed, port, calc, game_id, split_multiplier>>

SendLoopHeartbeat(cap) == SendLoopHeartbeatFrom("loop", cap)

\* The queue is not empty: packet = await self.packet_queue.get(), then
\* packet.write(self) is evaluated for sock_sendall.
SendLoopPop(cap) ==
    /\ pc["send"] = "loop"
    /\ GateOpen(game_data_done)
    /\ ~stop_event
    /\ ~QueueEmpty(packet_queue)
    /\ Len(wire) < cap
    /\ packet_queue' = Tail(packet_queue)
    /\ LET packet == Head(packet_queue) IN
       IF packet.kind = "CONTROL"
       THEN IF ControlWriteRaises(game_player)
            THEN /\ Raise("send", "AttributeError")
                 /\ UNCHANGED <<pending, control_ticks>>
            ELSE /\ pending' = Datagram("CONTROL", control_ticks, "send", packet.seq)
                 /\ control_ticks' = TickAfter(control_ticks)
                 /\ SetPc("send", "send_queued")
                 /\ UNCHANGED exc
       ELSE /\ pending' = Datagram(packet.kind, NoTick, "send", packet.seq)
            /\ SetPc("send", "send_queued")
            /\ UNCHANGED <<exc, control_ticks>>
    /\ UNCHANGED <<state, stop_event, game_data_done, event_loop, recv_loop,
                   game_player, gamedata_received, public_id, private_id,
                   socket_closed, wire, hist,
                   game_world, reading, client_id, account_id, port_seed, port, calc, game_id, split_multiplier>>

\* await asyncio.wait_for(loop.sock_sendall(self.socket, packet_data), 5.0)
\* at position at; the loop goes on at position next.
SendLoopWrite(at, next) ==
    /\ pc["send"] = at
    /\ \/ SockWritten(pending) /\ SetPc("send", next) /\ UNCHANGED exc
       \/ socket_closed /\ Raise("send", "OSError") /\ UNCHANGED wire
       \/ Raise("send", "TimeoutError") /\ UNCHANGED wire
    /\ pending' = NoPending
    /\ UNCHANGED <<state, stop_event, game_data_done, event_loop, recv_loop,
                   packet_queue, control_ticks, game_player, gamedata_received,
                   public_id, private_id, socket_closed, hist,
                   game_world, reading, client_id, account_id, port_seed, port, calc, game_id, split_multiplier>>

SendKeepAlive == SendLoopWrite("send_keep_alive", "keep_alive_cb")

SendControl == SendLoopWrite("send_control", "control_cb")

SendQueued == SendLoopWrite("send_queued", "loop")

\* on_keep_alive returns (or raises); then the heartbeat Control is built
\* and control_packet.write(self) is evaluated.
KeepAliveCallbackReturns ==
    /\ pc["send"] = "keep_alive_cb"
    /\ \/ /\ ControlWriteRaises(game_player)
          /\ Raise("send", "AttributeError")
          /\ UNCHANGED <<pending, control_ticks>>
       \/ /\ ~ControlWriteRaises(game_player)
          /\ pending' = Datagram("CONTROL", control_ticks, "send", 0)
          /\ control_ticks' = TickAfter(control_ticks)
          /\ SetPc("send", "send_control")
          /\ UNCHANGED exc
       \/ /\ Raise("send", "CallbackError")
          /\ UNCHANGED <<pending, control_ticks>>
    /\ UNCHANGED <<state, stop_event, game_data_done, event_loop, recv_loop,
                   packet_queue, game_player, gamedata_received, public_id,
                   private_id, socket_closed, wire, hist,
                   game_world, reading, client_id, account_id, port_seed, port, calc, game_id, split_multiplier>>

\* on_control returns (or raises); last_heartbeat = time.time().
ControlCallbackReturns ==
    /\ pc["send"] = "control_cb"
    /\ \/ SetPc("send", "loop") /\ UNCHANGED exc
       \/ Raise("send", "CallbackError")
    /\ UNCHANGED <<state, stop_event, game_data_done, event_loop, recv_loop,
                   packet_queue, control_ticks, game_player, gamedata_received,
                   public_id, private_id, socket_closed, pending, wire, hist,
                   game_world, reading, client_id, account_id, port_seed, port, calc, game_id, split_multiplier>>

\* ------------------------------------------------- the host
\* The host calls client.stop().
HostStop ==
    /\ pc["host"] = "idle"
    /\ hist.hostStops < MaxHostStops
    /\ StopCall("host", [hist EXCEPT !.hostStops = @ + 1])
    /\ UNCHANGED <<exc, game_data_done, packet_queue, control_ticks, game_player,
                   gamedata_received, public_id, private_id, socket_closed,
                   pending, wire,
                   game_world, reading, client_id, account_id, port_seed, port, calc, game_id, split_multiplier>>

\* await self.client.packet_queue.put(packet)
QueuePutMutant(queue, packet) == <<packet>> \o queue
QueuePut(queue, packet) == Append(queue, packet)

\* The host puts a packet on client.packet_queue.
HostEnqueue ==
    /\ hist.enqueued < MaxEnqueue
    /\ \E kind \in QueueKinds :
          packet_queue' = QueuePut(packet_queue, [kind |-> kind, seq |-> hist.enqueued + 1])
    /\ Bump("enqueued")
    /\ UNCHANGED <<pc, exc, state, stop_event, game_data_done, event_loop, recv_loop,
                   control_ticks, game_player, gamedata_received, public_id,
                   private_id, socket_closed, pending, wire,
                   game_world, reading, client_id, account_id, port_seed, port, calc, game_id, split_multiplier>>

\* ------------------------------------------------- LobbyChat
\* if self.client.account.account_id < 0: raise NotSignedInError(...)
ChatRefusedMutant(id) == id < -1
ChatRefused(id) == id < 0

\* send_game_message / send_clan_message: the check, then the packet is
\* built and put on client.packet_queue.
SendChat(kind) ==
    /\ hist.chatCalls < MaxChatCalls
    /\ IF ChatRefused(account_id)
       THEN /\ exc' = [exc EXCEPT !["host"] = "NotSignedInError"]
            /\ hist' = [hist EXCEPT !.chatCalls = @ + 1]
            /\ UNCHANGED packet_queue
       ELSE /\ packet_queue' = QueuePut(packet_queue,
                                        [kind |-> kind, seq |-> hist.enqueued + 1])
            /\ hist' = [hist EXCEPT !.chatCalls = @ + 1, !.enqueued = @ + 1]
            /\ UNCHANGED exc
    /\ UNCHANGED <<pc, state, stop_event, game_data_done, event_loop, recv_loop,
                   control_ticks, game_player, gamedata_received, public_id,
                   private_id, socket_closed, pending, wire,
                   game_world, reading, client_id, account_id, port_seed, port, calc, game_id, split_multiplier>>

HostSendGameMessage == SendChat("GAME_CHAT_MESSAGE")

HostSendClanMessage == SendChat("CLAN_CHAT_MESSAGE")

\* ------------------------------------------------- specifications
Handshake ==
    \/ StartCall
    \/ ConnectSendRequest
    \/ ConnectSendTimeout
    \/ ConnectRecvTimeout
    \/ ConnectRecvRaises
    \/ ConnectRecvRefused
    \/ ConnectRecvSuccess

\* Datagrams the receive loop hands to a packet handler.
Receive ==
    \/ RecvLoopStart
    \/ RecvWriteOnlyType
    \/ RecvReadableType(MaxSnapshots)
    \/ PlayerReadyReturns
    \/ PacketCallbackReturns
    \/ RecvTimeout

Shutdown ==
    \/ \E t \in {"send", "recv"} : LoopFinally(t)
    \/ \E t \in Tasks : StopSendDisconnect(t)
    \/ \E t \in Tasks : StopClose(t)
    \/ \E t \in Tasks : StopCallbackRaises(t)

Send(cap) ==
    \/ SendLoopStopObserved
    \/ SendLoopHeartbeat(cap)
    \/ SendLoopPop(cap)
    \/ SendKeepAlive
    \/ SendControl
    \/ SendQueued
    \/ KeepAliveCallbackReturns
    \/ ControlCallbackReturns

Next == Handshake \/ Receive \/ Shutdown \/ Send(MaxWire) \/ HostStop \/ HostEnqueue

Spec == Init /\ [][Next]_vars

\* A session in which nothing goes wrong and the host stays passive: the
\* handshake, the receive loop and the heartbeats of the send loop.
NextTicks ==
    \/ StartCall
    \/ ConnectSendRequest
    \/ ConnectRecvSuccess
    \/ RecvLoopStart
    \/ RecvReadableType(MaxSnapshots)
    \/ PlayerReadyReturns
    \/ PacketCallbackReturns
    \/ SendLoopHeartbeat(TickRun)
    \/ SendKeepAlive
    \/ KeepAliveCallbackReturns
    \/ SendControl
    \/ ControlCallbackReturns

SpecTicks == Init /\ [][NextTicks]_vars

\* A session in which the server keeps sending snapshots and chat and the
\* host only listens: the handshake and the receive loop.
NextWorld ==
    \/ StartCall
    \/ ConnectSendRequest
    \/ ConnectRecvSuccess
    \/ RecvLoopStart
    \/ RecvReadableType(WorldSnapshots)
    \/ PlayerReadyReturns
    \/ PacketCallbackReturns

SpecWorld == Init /\ [][NextWorld]_vars

\* Datagrams the receive loop drops without a read().
ReceiveDropped ==
    \/ RecvUnknownType
    \/ RecvUnhandledType

\* A connected session that also receives datagrams of types the receive
\* loop drops; the host enqueues packets and does not stop the client.
NextDropped ==
    \/ StartCall
    \/ ConnectSendRequest
    \/ ConnectRecvSuccess
    \/ Receive
    \/ ReceiveDropped
    \/ Send(MaxWire)
    \/ HostEnqueue
    \/ \E t \in {"send", "recv"} : LoopFinally(t)
    \/ \E t \in {"send", "recv"} : StopSendDisconnect(t)
    \/ \E t \in {"send", "recv"} : StopClose(t)

SpecDropped == Init /\ [][NextDropped]_vars

\* A connected session whose host sends chat messages.
NextChat ==
    \/ StartCall
    \/ ConnectSendRequest
    \/ ConnectRecvSuccess
    \/ RecvLoopStart
    \/ RecvReadableType(MaxSnapshots)
    \/ PlayerReadyReturns
    \/ PacketCallbackReturns
    \/ SendLoopPop(MaxWire)
    \/ SendQueued
    \/ HostSendGameMessage
    \/ HostSendClanMessage

SpecChat == InitChat /\ [][NextChat]_vars

\* A connected session that the host stops.  The event loop runs every
\* coroutine that is ready, and every socket operation completes or times
\* out after 5 s, so each coroutine that can take a step takes one.
SendSteps ==
    \/ SendLoopStopObserved
    \/ SendLoopHeartbeat(StopWire)
    \/ SendKeepAlive
    \/ KeepAliveCallbackReturns
    \/ SendControl
    \/ ControlCallbackReturns

NextStop ==
    \/ StartCall
    \/ ConnectSendRequest
    \/ ConnectRecvSuccess
    \/ Receive
    \/ SendSteps
    \/ Shutdown
    \/ HostStop

SpecStop ==
    /\ Init
    /\ [][NextStop]_vars
    /\ WF_vars(StartCall \/ ConnectSendRequest \/ ConnectRecvSuccess)
    /\ WF_vars(Receive)
    /\ WF_vars(SendSteps)
    /\ WF_vars(Shutdown)

\* ------------------------------------------------- views of the wire
IsControl(d) == d.type = "CONTROL"

ControlsWritten == SelectSeq(wire, IsControl)

IsDisconnect(d) == d.type = "DISCONNECT"

DisconnectsWritten == Len(SelectSeq(wire, IsDisconnect))

\* The datagrams written for packets taken from packet_queue.
IsQueued(d) == d.seq > 0

QueuedWritten == SelectSeq(wire, IsQueued)

\* The world mirror that holds exactly the records of one GAME_DATA packet.
WorldOf(packet) ==
    [players |-> packet.players, dots |-> packet.dots, ejects |-> packet.ejects,
     items |-> packet.items, map_size |-> packet.map_size]

\* A mirror no GAME_DATA packet has been applied to.
EmptyWorld == WorldOf(NoPayload)

LifecycleEdges ==
    { <<DISCONNECTED, CONNECTING>>, <<CONNECTING, CONNECTED>>,
      <<CONNECTED, DISCONNECTING>>, <<DISCONNECTING, DISCONNECTED>> }

\* ------------------------------------------------- claims
(* C1: while client.game_player is unset, no CONTROL datagram has been     *)
(* written to the socket, whoever asked for it (heartbeat or queue).       *)
C1_NoControlBeforePlayer ==
    game_player = NoPlayer => \A i \in 1..Len(wire) : wire[i].type # "CONTROL"

\* The send loop tried to emit a CONTROL with the player unknown.
C1_ControlRefused ==
    /\ game_player = NoPlayer
    /\ game_data_done
    /\ exc["send"] = "AttributeError"
    /\ \E i \in 1..Len(wire) : wire[i].type = "KEEP_ALIVE"

(* C2: the first CONTROL carries tick 0 and every next CONTROL carries the *)
(* previous tick plus 1 modulo 256.                                        *)
C2_TicksStepByOneMod256 ==
    LET c == ControlsWritten IN
    /\ c # <<>> => c[1].tick = 0
    /\ \A i \in 1..(Len(c) - 1) : c[i + 1].tick = (c[i].tick + 1) % 256

(* C3: a DISCONNECT datagram is the last datagram on the wire: nothing is  *)
(* written after it.                                                       *)
C3_DisconnectIsLast ==
    \A i \in 1..Len(wire) : wire[i].type = "DISCONNECT" => i = Len(wire)

(* C4: the first datagram written is CONNECT_REQUEST_3, and until a        *)
(* CONNECT_RESULT_2 with result Success has been received it is the only   *)
(* one.                                                                    *)
C4_RequestFirstAndAloneUntilSuccess ==
    /\ wire # <<>> => wire[1].type = "CONNECT_REQUEST_3"
    /\ ~hist.gotSuccess => Len(wire) =< 1

(* C5: after a failed handshake the loops have not been started and the    *)
(* lifecycle state is Disconnected once start() has returned.              *)
C5_FailedHandshakeEndsDisconnected ==
    (hist.connectFailed /\ pc["main"] = "done") =>
        /\ state = DISCONNECTED
        /\ pc["send"] = "notstarted"
        /\ pc["recv"] = "notstarted"

(* C6: every change of Client.state is one edge of                         *)
(* Disconnected -> Connecting -> Connected -> Disconnecting -> Disconnected *)
C6_StateFollowsLifecycle ==
    [][state' # state => <<state, state'>> \in LifecycleEdges]_vars

\* A session went through the whole cycle.
C6_FullCycle ==
    /\ state = DISCONNECTED
    /\ hist.closes = 1
    /\ hist.gotSuccess

(* C7: at most one DISCONNECT is written and the socket is closed at most  *)
(* once, and a stop() call made after one that passed the guard changes    *)
(* nothing of the client.                                                  *)
C7_StopIsIdempotent ==
    /\ [](DisconnectsWritten =< 1 /\ hist.closes =< 1)
    /\ [][hist'.lateStops > hist.lateStops =>
            UNCHANGED <<state, stop_event, game_data_done, event_loop, recv_loop,
                        packet_queue, control_ticks, game_player, public_id,
                        private_id, socket_closed, wire, exc>>]_vars

\* A loop's cleanup stopped the session and the host called stop() afterwards.
C7_LateStopMade ==
    /\ hist.lateStops = 1
    /\ hist.stopsPassed = 1
    /\ DisconnectsWritten = 1
    /\ hist.closes = 1

C9_GateImpliesGameData ==
    game_data_done => gamedata_received >= 1

(* C10: while the gate is not set the send loop has written nothing, and   *)
(* the outbound queue only grows at its tail.                              *)
C10_SendLoopWaitsForGate ==
    /\ [](~game_data_done =>
            \A i \in 1..Len(wire) : wire[i].type \in {"CONNECT_REQUEST_3", "DISCONNECT"})
    /\ [][~game_data_done => IsPrefix(packet_queue, packet_queue')]_vars

\* The send loop is suspended on the gate with two packets queued.
C10_QueuedBehindGate ==
    /\ ~game_data_done
    /\ pc["send"] = "loop"
    /\ Len(packet_queue) = 2

(* C11: the packets taken from the outbound queue appear on the wire in    *)
(* the order the host enqueued them, none of them twice.                   *)
C11_QueueOrderKept ==
    \A i, j \in 1..Len(QueuedWritten) :
        i < j => QueuedWritten[i].seq < QueuedWritten[j].seq

\* Both queued packets were written, and a heartbeat as well.
C11_TwoQueuedAndHeartbeat ==
    /\ Len(QueuedWritten) = 2
    /\ \E i \in 1..Len(wire) : wire[i].type = "KEEP_ALIVE"

(* C12: once on_game_data has applied a GAME_DATA packet, the world mirror *)
(* holds exactly the players, ejects, dots and items of that packet and    *)
(* its map_size.                                                           *)
C12_MirrorHoldsLastSnapshot ==
    (pc["recv"] = "packet_cb" /\ reading.name = "GAME_DATA") =>
        game_world = WorldOf(reading.packet)

(* C13: while the receive loop is suspended in a host callback, so that    *)
(* the callback and the send loop can read the world mirror, the mirror    *)
(* is a complete snapshot: never part of a GAME_DATA packet.               *)
C13_NoPartialSnapshotSeen ==
    pc["recv"] \in {"player_ready_cb", "packet_cb"} =>
        \/ game_world = EmptyWorld
        \/ \E packet \in GameDataPayloads : game_world = WorldOf(packet)

(* C14: a datagram whose leading byte is no defined packet type changes    *)
(* nothing of the client (lifecycle state, gate, world mirror, outbound    *)
(* queue, tick counter, local player), raises nothing, enters no callback  *)
(* and leaves the receive loop at its next read (or at its end, when a     *)
(* stop has been requested meanwhile).                                     *)
C14_UnknownTypeDropped ==
    [][(hist'.ignored # hist.ignored /\ hist'.ignored \in UnknownTypes) =>
          /\ UNCHANGED <<state, stop_event, game_data_done, gamedata_received,
                         game_world, packet_queue, control_ticks, game_player,
                         exc, wire, socket_closed, reading>>
          /\ pc["recv"] = "recv"
          /\ pc'["recv"] = IF stop_event THEN "fin" ELSE "recv"
          /\ \A t \in Tasks \ {"recv"} : pc'[t] = pc[t]]_vars

\* An unknown datagram was dropped in a running session and the receive
\* loop read a GAME_DATA packet after it.
C14_DroppedThenRead ==
    /\ hist.ignored \in UnknownTypes
    /\ reading.name = "GAME_DATA"
    /\ state = CONNECTED

(* C15: a datagram of a defined packet type the core does not parse (the   *)
(* send-only CONTROL among them) is ignored: the receive loop raises       *)
(* nothing and does not end.                                               *)
C15_UnparsedTypeIgnored ==
    reading.name \in (DefinedTypes \ ReadableTypes) =>
        /\ exc["recv"] = None
        /\ pc["recv"] \notin {"fin", "stop_send", "stop_cb", "done"}

(* C16: the events of a received GAME_UPDATE datagram are handed to the    *)
(* host callbacks; the datagram is never dropped with no callback called.  *)
C16_GameUpdateEventsDelivered ==
    hist.ignored # "GAME_UPDATE"

(* C17: when a loop has ended by a timeout or an error in a Connected      *)
(* session and has run its shutdown, exactly one DISCONNECT is on the      *)
(* wire, the socket is closed and the state is Disconnected.               *)
C17_LoopErrorShutsDownCleanly ==
    \A t \in {"send", "recv"} :
        (hist.stopBy = t /\ pc[t] = "done") =>
            /\ DisconnectsWritten = 1
            /\ socket_closed
            /\ state = DISCONNECTED

(* C18: once a stop() call has passed its guard, the send loop and the     *)
(* receive loop both come to their end, so that the gather of start() can  *)
(* return.                                                                 *)
C18_LoopsEndAfterStop ==
    (hist.stopsPassed > 0) ~> (pc["send"] = "done" /\ pc["recv"] = "done")

(* C19: once connect() has returned True, public_id, private_id and        *)
(* client_id never change, and every KEEP_ALIVE and DISCONNECT on the wire *)
(* carries exactly those three values.                                     *)
C19_SessionIdsFixed ==
    /\ [][pc["send"] # "notstarted" =>
            UNCHANGED <<public_id, private_id, client_id>>]_vars
    /\ [](\A i \in 1..Len(wire) :
            wire[i].type \in {"KEEP_ALIVE", "DISCONNECT"} =>
                wire[i].ids = <<public_id, private_id, client_id>>)

\* A KEEP_ALIVE and the DISCONNECT were written after the receive loop had
\* seen a datagram.
C19_HeartbeatAndDisconnectWritten ==
    /\ \E i \in 1..Len(wire) : wire[i].type = "KEEP_ALIVE"
    /\ DisconnectsWritten = 1
    /\ public_id # 0
    /\ game_data_done

(* C20: a send_game_message or send_clan_message call with account_id < 0  *)
(* raises NotSignedInError and leaves the outbound queue and the wire      *)
(* as they are; with a valid account the call appends exactly one packet   *)
(* at the tail of the queue.                                               *)
C20_ChatNeedsAccount ==
    [][hist'.chatCalls > hist.chatCalls =>
          IF account_id < 0
          THEN /\ exc'["host"] = "NotSignedInError"
               /\ UNCHANGED <<packet_queue, wire, pending>>
          ELSE /\ Len(packet_queue') = Len(packet_queue) + 1
               /\ IsPrefix(packet_queue, packet_queue')
               /\ packet_queue'[Len(packet_queue')].kind
                      \in {"GAME_CHAT_MESSAGE", "CLAN_CHAT_MESSAGE"}
               /\ UNCHANGED <<exc, wire>>]_vars

\* A host without account was refused twice while the send loop was running
\* with its gate open.
C20_ChatRefused ==
    /\ account_id < 0
    /\ exc["host"] = "NotSignedInError"
    /\ hist.chatCalls = 2
    /\ packet_queue = <<>>
    /\ pc["send"] = "loop"
    /\ game_data_done
\* ------------------------------------------------- ConnectRequest3.write
\* The serialized request before the shuffle: the type byte, int32 0 and the
\* int64 rng_seed, then up to MaxBody bytes of the fields that follow.
MaxBody == 3

HeaderLen == 13

CONNECT_REQUEST_3 == 118

BodyBytes == {0, 7, 118}

RngSeedBytes == <<1, 2, 3, 4, 5, 6, 7, 8>>

ConnectRequest3Header == <<CONNECT_REQUEST_3, 0, 0, 0, 0>> \o RngSeedBytes

ConnectRequest3Streams ==
    UNION { { ConnectRequest3Header \o [p \in 1..n |-> body[p]] :
                body \in [1..n -> BodyBytes] } : n \in 0..MaxBody }

\* x = pair[0] + 13, y = pair[1] + 13: the position of that offset.
SwapPositionMutant(k) == k + HeaderLen
SwapPosition(k) == k + HeaderLen + 1

\* a = packet_bytes[x]; packet_bytes[x] = packet_bytes[y]; packet_bytes[y] = a
SwappedMutant(bytes, pair) ==
    [bytes EXCEPT ![SwapPosition(pair[1])] = bytes[SwapPosition(pair[2])]]
Swapped(bytes, pair) ==
    [bytes EXCEPT ![SwapPosition(pair[1])] = bytes[SwapPosition(pair[2])],
                  ![SwapPosition(pair[2])] = bytes[SwapPosition(pair[1])]]

\* for pair in indices: ... the swaps of the pairs, in their order.
RECURSIVE ApplySwaps(_, _)
ApplySwaps(bytes, pairs) ==
    IF pairs = <<>> THEN bytes
    ELSE ApplySwaps(Swapped(bytes, Head(pairs)), Tail(pairs))

\* The three checks that follow the shuffle.
HeaderIntact(bytes) ==
    /\ bytes[1] = CONNECT_REQUEST_3
    /\ SubSeq(bytes, 2, 5) = <<0, 0, 0, 0>>
    /\ SubSeq(bytes, 6, HeaderLen) = RngSeedBytes

\* packet_bytes = bytearray(stream.bytes()); indices = []
InitShuffle ==
    \E bytes \in ConnectRequest3Streams :
        InitClient(NotSignedIn, 0,
                   [op |-> "shuffle", original |-> bytes, packet_bytes |-> bytes,
                    indices |-> <<>>, i |-> Len(bytes) - 14, k |-> 1,
                    result |-> None])

\* for i in range(len(packet_bytes) - 14, 0, -1):
\*     indices.append((i, server_rng.nextInt(i + 1)))
ShuffleIndex ==
    /\ calc.op = "shuffle"
    /\ calc.i > 0
    /\ \E j \in 0..calc.i :
         calc' = [calc EXCEPT !.indices = Append(@, <<calc.i, j>>), !.i = @ - 1]
    /\ UNCHANGED <<pc, exc, state, stop_event, game_data_done, event_loop, recv_loop,
                   packet_queue, control_ticks, game_player, gamedata_received,
                   public_id, private_id, socket_closed, pending, wire, hist,
                   game_world, reading, client_id, account_id, port_seed, port, game_id,
                   split_multiplier>>

\* for pair in indices: one swap.
ShuffleSwap ==
    /\ calc.op = "shuffle"
    /\ calc.i =< 0
    /\ calc.k =< Len(calc.indices)
    /\ calc' = [calc EXCEPT !.packet_bytes = Swapped(@, calc.indices[calc.k]),
                            !.k = @ + 1]
    /\ UNCHANGED <<pc, exc, state, stop_event, game_data_done, event_loop, recv_loop,
                   packet_queue, control_ticks, game_player, gamedata_received,
                   public_id, private_id, socket_closed, pending, wire, hist,
                   game_world, reading, client_id, account_id, port_seed, port, game_id,
                   split_multiplier>>

\* The header checks: raise ValueError("Packet header has been corrupted"),
\* or return bytes(packet_bytes).
ShuffleReturn ==
    /\ calc.op = "shuffle"
    /\ calc.i =< 0
    /\ calc.k > Len(calc.indices)
    /\ calc.result = None
    /\ calc' = [calc EXCEPT !.result = IF HeaderIntact(calc.packet_bytes)
                                       THEN "returned" ELSE "ValueError"]
    /\ UNCHANGED <<pc, exc, state, stop_event, game_data_done, event_loop, recv_loop,
                   packet_queue, control_ticks, game_player, gamedata_received,
                   public_id, private_id, socket_closed, pending, wire, hist,
                   game_world, reading, client_id, account_id, port_seed, port, game_id,
                   split_multiplier>>

NextShuffle == ShuffleIndex \/ ShuffleSwap \/ ShuffleReturn

SpecShuffle == InitShuffle /\ [][NextShuffle]_vars

\* The positions of the sequence that hold the byte v from offset 13 on.
BodyPositions(bytes, v) == { p \in (HeaderLen + 1)..Len(bytes) : bytes[p] = v }

Reversed(seq) == [p \in 1..Len(seq) |-> seq[Len(seq) + 1 - p]]

(* C21: whatever the serialized CONNECT_REQUEST_3 and whatever the draws   *)
(* of the seeded generator, the shuffled packet has the length of the      *)
(* original, its first 13 bytes are those of the original, its bytes from  *)
(* offset 13 on are a permutation of the original ones, and the header     *)
(* check that follows the shuffle does not raise.                          *)
C21_ShuffleKeepsHeaderAndBody ==
    calc.op = "shuffle" =>
        /\ Len(calc.packet_bytes) = Len(calc.original)
        /\ SubSeq(calc.packet_bytes, 1, HeaderLen) = SubSeq(calc.original, 1, HeaderLen)
        /\ \A v \in BodyBytes \cup 0..8 :
             Cardinality(BodyPositions(calc.packet_bytes, v))
               = Cardinality(BodyPositions(calc.original, v))
        /\ calc.result # "ValueError"

\* A request of 16 bytes has been shuffled into other bytes and returned.
C21_ShuffledAndReturned ==
    /\ calc.op = "shuffle"
    /\ calc.result = "returned"
    /\ Len(calc.original) = 16
    /\ calc.packet_bytes # calc.original

(* C22: for a request of 14 bytes or more and whatever the draws, the      *)
(* swaps of the shuffle applied in reverse order to the shuffled packet    *)
(* give the original packet back, byte for byte.                           *)
C22_ReverseSwapsRecover ==
    (calc.op = "shuffle" /\ calc.result = "returned" /\ Len(calc.original) >= 14) =>
        ApplySwaps(calc.packet_bytes, Reversed(calc.indices)) = calc.original

\* Two swaps were made whose order matters: repeating them in the order of
\* the shuffle does not give the original back.
C22_OrderOfSwapsMatters ==
    /\ calc.op = "shuffle"
    /\ calc.result = "returned"
    /\ Len(calc.indices) = 2
    /\ ApplySwaps(calc.packet_bytes, calc.indices) # calc.original

\* ------------------------------------------------- KeepAlive.write
KEEP_ALIVE == 3

\* Values of public_id, private_id and client_id: 0x01020304, 0x05060708,
\* 0x090A0B0C and a negative one.
IdSample == {16909060, 84281096, 151653132, -2}

\* Values of inet_aton(region.ip): 10.20.30.40 and 192.168.0.1.
IpSample == {<<10, 20, 30, 40>>, <<192, 168, 0, 1>>}

\* stream.write_int32(v) in network byte order: the four bytes of the
\* two's complement of v, most significant first.
write_int32(v) ==
    <<(v \div 16777216) % 256, (v \div 65536) % 256, (v \div 256) % 256, v % 256>>

\* stream.write(self.server_ip[::-1])
ServerIpWrittenMutant(ip) == ip
ServerIpWritten(ip) == Reversed(ip)

\* KeepAlive.write of the packet p.
KeepAliveBytes(p) ==
    <<KEEP_ALIVE>> \o write_int32(p.public_id) \o write_int32(p.private_id)
        \o ServerIpWritten(p.server_ip) \o write_int32(p.client_id)

\* A KeepAlive(PacketType.KEEP_ALIVE, public_id, private_id, server_ip, client_id).
InitKeepAlive ==
    \E pub \in IdSample, priv \in IdSample, ip \in IpSample, cid \in IdSample :
        InitClient(NotSignedIn, 0,
                   [op |-> "keep_alive",
                    packet |-> [public_id |-> pub, private_id |-> priv,
                                server_ip |-> ip, client_id |-> cid],
                    data |-> <<>>, result |-> None])

\* data = stream.bytes(); return data
KeepAliveWrite ==
    /\ calc.op = "keep_alive"
    /\ calc.result = None
    /\ calc' = [calc EXCEPT !.data = KeepAliveBytes(calc.packet), !.result = "returned"]
    /\ UNCHANGED <<pc, exc, state, stop_event, game_data_done, event_loop, recv_loop,
                   packet_queue, control_ticks, game_player, gamedata_received,
                   public_id, private_id, socket_closed, pending, wire, hist,
                   game_world, reading, client_id, account_id, port_seed, port, game_id,
                   split_multiplier>>

NextKeepAlive == KeepAliveWrite

SpecKeepAlive == InitKeepAlive /\ [][NextKeepAlive]_vars

\* The signed 32-bit integer that four bytes hold, most significant first.
BigEndianInt32(bytes) ==
    (IF bytes[1] >= 128 THEN bytes[1] - 256 ELSE bytes[1]) * 16777216
        + bytes[2] * 65536 + bytes[3] * 256 + bytes[4]

(* C23: KeepAlive.write returns exactly 17 bytes: the byte 0x03, public_id *)
(* big-endian, private_id big-endian, the four octets a.b.c.d of the       *)
(* server ip in the order d c b a, client_id big-endian; for 0x01020304,   *)
(* 0x05060708, 10.20.30.40 and 0x090A0B0C that is                          *)
(* 03 01020304 05060708 281E140A 090A0B0C.                                 *)
C23_KeepAliveLayout ==
    (calc.op = "keep_alive" /\ calc.result = "returned") =>
        LET p == calc.packet
            data == calc.data
        IN /\ Len(data) = 17
           /\ data[1] = 3
           /\ \A q \in 1..17 : data[q] \in 0..255
           /\ BigEndianInt32(SubSeq(data, 2, 5)) = p.public_id
           /\ BigEndianInt32(SubSeq(data, 6, 9)) = p.private_id
           /\ SubSeq(data, 10, 13) = <<p.server_ip[4], p.server_ip[3],
                                       p.server_ip[2], p.server_ip[1]>>
           /\ BigEndianInt32(SubSeq(data, 14, 17)) = p.client_id
           /\ (p = [public_id |-> 16909060, private_id |-> 84281096,
                    server_ip |-> <<10, 20, 30, 40>>, client_id |-> 151653132])
                => data = <<3, 1, 2, 3, 4, 5, 6, 7, 8, 40, 30, 20, 10, 9, 10, 11, 12>>

\* The packet of the example has been written.
C23_ExampleWritten ==
    /\ calc.op = "keep_alive"
    /\ calc.result = "returned"
    /\ calc.packet = [public_id |-> 16909060, private_id |-> 84281096,
                      server_ip |-> <<10, 20, 30, 40>>, client_id |-> 151653132]

\* ------------------------------------------------- natives: MUTF8String
\* A string is the sequence of its code points (below 0x800).
\* str.encode("utf-8") of one character, and of a string.
Utf8Char(c) == IF c < 128 THEN <<c>> ELSE <<192 + (c \div 64), 128 + (c % 64)>>

RECURSIVE Utf8Encode(_)
Utf8Encode(chars) ==
    IF chars = <<>> THEN <<>> ELSE Utf8Char(Head(chars)) \o Utf8Encode(Tail(chars))

\* The lower-case hexadecimal digit n, as a code point.
HexDigit(n) == IF n < 10 THEN 48 + n ELSE 87 + n

\* bytes.decode("utf-8", errors="backslashreplace") for sequences of one and
\* two bytes: a byte that starts no valid sequence becomes the four
\* characters \xhh.
RECURSIVE Utf8Decode(_)
Utf8Decode(bytes) ==
    IF bytes = <<>> THEN <<>>
    ELSE LET b == Head(bytes) IN
         IF b < 128 THEN <<b>> \o Utf8Decode(Tail(bytes))
         ELSE IF b \in 194..223 /\ Len(bytes) >= 2 /\ bytes[2] \in 128..191
              THEN <<(b - 192) * 64 + (bytes[2] - 128)>>
                       \o Utf8Decode(SubSeq(bytes, 3, Len(bytes)))
              ELSE <<92, 120, HexDigit(b \div 16), HexDigit(b % 16)>>
                       \o Utf8Decode(Tail(bytes))

\* MUTF8String.from_py_string(value): cls(len(value), value)
from_py_string(chars) == [length |-> Len(chars), value |-> chars]

\* MUTF8String.encode: self.length.to_bytes(2, "big") + self._value.encode("utf-8")
MUTF8Encode(str) == <<str.length \div 256, str.length % 256>> \o Utf8Encode(str.value)

\* A read of n bytes at position pos stays within data.
CanRead(data, pos, n) == n >= 0 /\ pos + n - 1 =< Len(data)

\* MUTF8String.from_stream at position pos: read_uint16, then read(length)
\* decoded; next is the position after the string, 0 when data ends early.
MUTF8FromStream(data, pos) ==
    IF ~CanRead(data, pos, 2) THEN [next |-> 0, str |-> from_py_string(<<>>)]
    ELSE LET length == data[pos] * 256 + data[pos + 1] IN
         IF ~CanRead(data, pos + 2, length)
         THEN [next |-> 0, str |-> from_py_string(<<>>)]
         ELSE [next |-> pos + 2 + length,
               str |-> [length |-> length,
                        value |-> Utf8Decode(SubSeq(data, pos + 2, pos + 1 + length))]]

\* ------------------------------------------------- natives: VariableLengthArray
\* stream.read_int8() / int.from_bytes(..., signed=True) of one byte.
SignedByte(b) == IF b >= 128 THEN b - 256 ELSE b

\* 1 << n
RECURSIVE ShiftLeftOne(_)
ShiftLeftOne(n) == IF n = 0 THEN 1 ELSE 2 * ShiftLeftOne(n - 1)

\* int.to_bytes(size, byteorder="big") of a value that fits: the least
\* significant byte comes last.
RECURSIVE to_bytes(_, _)
to_bytes(value, size) ==
    IF size = 0 THEN <<>>
    ELSE to_bytes(value \div 256, size - 1) \o <<value % 256>>

\* VariableLengthArray(size, values).encode(): ValueError("Array is too long")
\* above (1 << (8 * size)) - 1 values, else the length in size bytes and
\* value & 0xFF of every value.
encodeMutant(size, values) ==
    [raised |-> None,
     bytes |-> to_bytes(Len(values), size)
                   \o [p \in 1..Len(values) |-> values[p] % 256]]

encode(size, values) ==
    IF Len(values) > ShiftLeftOne(8 * size) - 1
    THEN [raised |-> "ValueError", bytes |-> <<>>]
    ELSE [raised |-> None,
          bytes |-> to_bytes(Len(values), size)
                        \o [p \in 1..Len(values) |-> values[p] % 256]]

\* VariableLengthArray.encode with size 1, as the chat packets use it.
VLAEncode(values) == encode(1, values).bytes

\* VariableLengthArray.from_stream(1, stream) at position pos:
\* length = int.from_bytes(stream.read(size), signed=True);
\* values = [stream.read_int8() for _ in range(length)]
VLAFromStream(data, pos) ==
    IF ~CanRead(data, pos, 1) THEN [next |-> 0, values |-> <<>>]
    ELSE LET length == SignedByte(data[pos])
             count == IF length < 0 THEN 0 ELSE length
         IN IF ~CanRead(data, pos + 1, count) THEN [next |-> 0, values |-> <<>>]
            ELSE [next |-> pos + 1 + count,
                  values |-> [p \in 1..count |-> SignedByte(data[pos + p])]]

\* ------------------------------------------------- GameChatMessage
GAME_CHAT_MESSAGE == 8

\* The values of Font.
FontValues == 0..30

\* "", "hi"
AliasSample == {<<>>, <<104, 105>>}

\* "", "ok", and a one-character string of two encoded bytes
MessageSample == {<<>>, <<111, 107>>, <<233>>}

\* Arrays of alias colors: none, small values, a value above 127, and an
\* array of 128 values.
AliasColorsSample == {<<>>, <<1, 127>>, <<200>>, [p \in 1..128 |-> 5]}

\* GameChatMessage.write of the packet p by a client with the given ids.
GameChatMessageBytes(p, pub, cid) ==
    <<GAME_CHAT_MESSAGE>> \o write_int32(pub)
        \o MUTF8Encode(p.alias) \o MUTF8Encode(p.message)
        \o write_int32(-1) \o <<0>> \o <<0, 0, 0, 0, 0, 0, 0, 0>>
        \o VLAEncode(p.alias_colors)
        \o <<IF p.show_broadcast_bubble THEN 1 ELSE 0>>
        \o <<p.alias_font>>
        \o write_int32(cid) \o <<0, 0>>

\* GameChatMessage.read of data: the packet it builds, the position after
\* the last byte it consumed, and the error it raises if any.
GameChatMessageParsed(data) ==
    LET alias == MUTF8FromStream(data, 6)
        message == MUTF8FromStream(data, alias.next)
        colors == VLAFromStream(data, message.next + 13)
        failed == [error |-> "EndOfStream", next |-> 0, alias |-> <<>>,
                   message |-> <<>>, alias_colors |-> <<>>,
                   show_broadcast_bubble |-> FALSE, alias_font |-> 0]
    IN IF alias.next = 0 \/ message.next = 0 \/ ~CanRead(data, message.next, 13)
          \/ colors.next = 0 \/ ~CanRead(data, colors.next, 2)
       THEN failed
       ELSE [error |-> IF SignedByte(data[colors.next + 1]) \in FontValues
                       THEN None ELSE "ValueError",
             next |-> colors.next + 2,
             alias |-> alias.str.value,
             message |-> message.str.value,
             alias_colors |-> colors.values,
             show_broadcast_bubble |-> data[colors.next] # 0,
             alias_font |-> SignedByte(data[colors.next + 1])]

\* A GameChatMessage built by the host.
InitChatCodec ==
    \E alias \in AliasSample, message \in MessageSample,
       colors \in AliasColorsSample, bubble \in BOOLEAN, font \in {0, 7} :
        InitClient(NotSignedIn, 0,
                   [op |-> "chat",
                    packet |-> [alias |-> from_py_string(alias),
                                message |-> from_py_string(message),
                                alias_colors |-> colors,
                                show_broadcast_bubble |-> bubble,
                                alias_font |-> font],
                    data |-> <<>>,
                    parsed |-> GameChatMessageParsed(<<>>),
                    result |-> None])

\* packet.write(client)
ChatWrite ==
    /\ calc.op = "chat"
    /\ calc.result = None
    /\ calc' = [calc EXCEPT !.data = GameChatMessageBytes(calc.packet, public_id,
                                                          client_id),
                            !.result = "written"]
    /\ UNCHANGED <<pc, exc, state, stop_event, game_data_done, event_loop, recv_loop,
                   packet_queue, control_ticks, game_player, gamedata_received,
                   public_id, private_id, socket_closed, pending, wire, hist,
                   game_world, reading, client_id, account_id, port_seed, port, game_id,
                   split_multiplier>>

\* GameChatMessage.read(client, packet_type, data) of the bytes written.
ChatRead ==
    /\ calc.op = "chat"
    /\ calc.result = "written"
    /\ calc' = [calc EXCEPT !.parsed = GameChatMessageParsed(calc.data),
                            !.result = "read"]
    /\ UNCHANGED <<pc, exc, state, stop_event, game_data_done, event_loop, recv_loop,
                   packet_queue, control_ticks, game_player, gamedata_received,
                   public_id, private_id, socket_closed, pending, wire, hist,
                   game_world, reading, client_id, account_id, port_seed, port, game_id,
                   split_multiplier>>

NextChatCodec == ChatWrite \/ ChatRead

SpecChatCodec == InitChatCodec /\ [][NextChatCodec]_vars

(* C24: for every alias, message, alias_colors array of 0..255 values in   *)
(* 0..255, show_bubble flag and font, reading the bytes that               *)
(* GameChatMessage.write produced gives a packet with the same alias,      *)
(* message, alias_colors, show_bubble and font, and the reader stops where *)
(* the writer put the client id, having consumed every field before it.    *)
C24_ChatRoundTrip ==
    (calc.op = "chat" /\ calc.result = "read") =>
        /\ calc.parsed.error = None
        /\ calc.parsed.alias = calc.packet.alias.value
        /\ calc.parsed.message = calc.packet.message.value
        /\ calc.parsed.alias_colors = calc.packet.alias_colors
        /\ calc.parsed.show_broadcast_bubble = calc.packet.show_broadcast_bubble
        /\ calc.parsed.alias_font = calc.packet.alias_font
        /\ calc.parsed.next = Len(calc.data) - 5

\* ------------------------------------------------- natives: CompressedFloat
\* A float is the fraction num / den; with den = 512 and max_range 1 or 2
\* the products and quotients below are exact in double precision.
MaxRanges == {1, 2}

FloatsUpTo(max_range) == { [num |-> n, den |-> 512] : n \in 0..(512 * max_range) }

\* The integer that compress() scales value to for an encoding of size
\* bytes: 255.0 in compress_1_clamp, 65535.0 in compress.
ScaleOf(size) == IF size = 1 THEN 255 ELSE 65535

\* int(((self.value - min_v) * 255.0) / (self.max_range - min_v)) with
\* min_v = 0.0, and int(((self.value - 0.0) * 65535.0) / (self.max_range - 0.0)):
\* int() drops the fraction.
compress(value, max_range, size) ==
    (value.num * ScaleOf(size)) \div (value.den * max_range)

\* from_1_clamped with min_v = 0.0: ((max_v - min_v) * (value & 0xFF)) / 255.0 + min_v;
\* decompress: ((max_range - 0.0) * (value & 0xFFFF)) / 65535.0 + 0.0
decompress(value, max_range, size) ==
    [num |-> max_range * (value % (ScaleOf(size) + 1)), den |-> ScaleOf(size)]

\* A CompressedFloat(value, max_range) and the size of its encoding.
InitFloat ==
    \E max_range \in MaxRanges, size \in {1, 2} :
      \E value \in FloatsUpTo(max_range) :
        InitClient(NotSignedIn, 0,
                   [op |-> "float", value |-> value, max_range |-> max_range,
                    size |-> size, compressed |-> 0,
                    decompressed |-> [num |-> 0, den |-> 1], result |-> None])

FloatCompress ==
    /\ calc.op = "float"
    /\ calc.result = None
    /\ calc' = [calc EXCEPT !.compressed = compress(calc.value, calc.max_range,
                                                    calc.size),
                            !.result = "compressed"]
    /\ UNCHANGED <<pc, exc, state, stop_event, game_data_done, event_loop, recv_loop,
                   packet_queue, control_ticks, game_player, gamedata_received,
                   public_id, private_id, socket_closed, pending, wire, hist,
                   game_world, reading, client_id, account_id, port_seed, port, game_id,
                   split_multiplier>>

FloatDecompress ==
    /\ calc.op = "float"
    /\ calc.result = "compressed"
    /\ calc' = [calc EXCEPT !.decompressed = decompress(calc.compressed,
                                                        calc.max_range, calc.size),
                            !.result = "decompressed"]
    /\ UNCHANGED <<pc, exc, state, stop_event, game_data_done, event_loop, recv_loop,
                   packet_queue, control_ticks, game_player, gamedata_received,
                   public_id, private_id, socket_closed, pending, wire, hist,
                   game_world, reading, client_id, account_id, port_seed, port, game_id,
                   split_multiplier>>

NextFloat == FloatCompress \/ FloatDecompress

SpecFloat == InitFloat /\ [][NextFloat]_vars

\* | a |
Abs(a) == IF a < 0 THEN -a ELSE a

(* C25: for every value v in [0, max], the value decompressed from the     *)
(* compressed v differs from v by at most max / 2^k, with k = 8 for the    *)
(* 1-byte and k = 16 for the 2-byte encoding.                              *)
C25_RoundTripErrorBound ==
    (calc.op = "float" /\ calc.result = "decompressed") =>
        LET v == calc.value
            w == calc.decompressed
            twoToK == IF calc.size = 1 THEN 256 ELSE 65536
        IN Abs(v.num * w.den - w.num * v.den) * twoToK
               =< calc.max_range * v.den * w.den

\* ------------------------------------------------- connect attempts
\* The calls of start() the host makes on one client.
MaxAttempts == 4

\* A client whose self.rng.nextInt(2) gave either port seed.
InitPorts == \E seed \in {0, 1} : InitClient(NotSignedIn, seed, NoCalc)

\* start() has returned without a connection (connect() returned False and
\* stop() found nothing to stop, or ConnectResult2.read raised); the socket
\* is still open and the host calls start() again on the same client.
StartAgain ==
    /\ pc["main"] = "done"
    /\ state = CONNECTING
    /\ Len(hist.ports) < MaxAttempts
    /\ pc' = [pc EXCEPT !["main"] = "idle"]
    /\ exc' = [exc EXCEPT !["main"] = None]
    /\ UNCHANGED <<state, stop_event, game_data_done, event_loop, recv_loop,
                   packet_queue, control_ticks, game_player, gamedata_received,
                   public_id, private_id, socket_closed, pending, wire, hist,
                   game_world, reading, client_id, account_id, port_seed, port, calc, game_id, split_multiplier>>

NextPorts == Handshake \/ StartAgain

SpecPorts == InitPorts /\ [][NextPorts]_vars

(* C26: the port_seed is 0 or 1 and the UDP port of every connect attempt  *)
(* is 27900 or 27901; each attempt advances the seed, so two consecutive   *)
(* connect attempts of one client never use the same port.                 *)
C26_PortsAlternate ==
    /\ port_seed \in {0, 1}
    /\ \A a \in 1..Len(hist.ports) :
         /\ hist.ports[a] \in {27900, 27901}
         /\ a < Len(hist.ports) => hist.ports[a] # hist.ports[a + 1]

\* ------------------------------------------------- heartbeat
\* The positions after position p of wire that the body of the send loop
\* wrote (the DISCONNECT of the stop() in its finally block is not one).
SendLoopWritesAfter(p) ==
    { q \in (p + 1)..Len(wire) : wire[q].by = "send" /\ wire[q].type # "DISCONNECT" }

\* The first of them.
NextSendLoopWrite(p) ==
    CHOOSE q \in SendLoopWritesAfter(p) : \A r \in SendLoopWritesAfter(p) : q =< r

(* C27: the send loop serializes a KEEP_ALIVE only when packet_queue is    *)
(* empty; the next datagram the send loop writes after a KEEP_ALIVE is the *)
(* heartbeat CONTROL (angle 0, speed 0, flags NONE), never a queued        *)
(* packet; and an iteration that finds the queue not empty takes exactly   *)
(* the packet at its head for writing in place of a heartbeat.             *)
C27_HeartbeatOnlyWhenQueueEmpty ==
    /\ [][(pending'.type = "KEEP_ALIVE" /\ pending.type # "KEEP_ALIVE")
             => packet_queue = <<>>]_vars
    /\ [][(pc["send"] = "loop" /\ pc'["send"] # "loop" /\ ~stop_event
              /\ packet_queue # <<>>)
             => /\ packet_queue' = Tail(packet_queue)
                /\ pc'["send"] \in {"send_queued", "fin"}
                /\ pc'["send"] = "send_queued"
                     => /\ pending'.seq = Head(packet_queue).seq
                        /\ pending'.type = Head(packet_queue).kind]_vars
    /\ [](\A p \in 1..Len(wire) :
            (wire[p].type = "KEEP_ALIVE" /\ SendLoopWritesAfter(p) # {})
                => LET d == wire[NextSendLoopWrite(p)]
                   IN /\ d.type = "CONTROL"
                      /\ d.seq = 0
                      /\ d.control = [angle |-> 0, speed |-> 0, flags |-> "NONE"])

\* A heartbeat (KEEP_ALIVE, then its CONTROL) and a packet from the queue
\* are on the wire.
C27_HeartbeatAndQueuedWritten ==
    /\ \E p \in 1..Len(wire) :
         /\ wire[p].type = "KEEP_ALIVE"
         /\ SendLoopWritesAfter(p) # {}
         /\ wire[NextSendLoopWrite(p)].type = "CONTROL"
    /\ \E q \in 1..Len(wire) : wire[q].seq > 0

\* ------------------------------------------------- the idle send loop
\* if time.time() - last_heartbeat < heartbeat_interval: continue
\* The gate is set, the queue is empty and no heartbeat is due: the loop
\* goes back to "await self.game_data_done.wait()", which returns at once
\* for a set Event.  The iteration has passed no await that suspends, so the
\* send coroutine still holds the thread ("busy").
SendLoopIdle ==
    /\ pc["send"] = "loop"
    /\ GateOpen(game_data_done)
    /\ ~stop_event
    /\ QueueEmpty(packet_queue)
    /\ SetPc("send", "busy")
    /\ UNCHANGED <<exc, state, stop_event, game_data_done, event_loop, recv_loop,
                   packet_queue, control_ticks, game_player, gamedata_received,
                   public_id, private_id, socket_closed, pending, wire, hist,
                   game_world, reading, client_id, account_id, port_seed, port, calc, game_id, split_multiplier>>

\* After idle iterations the heartbeat is due.
SendLoopBusyHeartbeat == SendLoopHeartbeatFrom("busy", MaxWire)

\* The coroutine that is running between two of its awaits; the event loop
\* resumes another coroutine only when there is none.
Running == IF pc["send"] = "busy" THEN "send" ELSE None

\* One thread: while the send loop runs its idle iterations nothing else
\* runs.  The host stays passive, so the queue stays empty.
NextIdle ==
    \/ Running = None /\ StartCall
    \/ Running = None /\ ConnectSendRequest
    \/ Running = None /\ ConnectRecvSuccess
    \/ Running = None /\ RecvLoopStart
    \/ Running = None /\ RecvReadableType(MaxSnapshots)
    \/ Running = None /\ PlayerReadyReturns
    \/ Running = None /\ PacketCallbackReturns
    \/ Running = None /\ RecvTimeout
    \/ Running = None /\ (\E t \in {"send", "recv"} : LoopFinally(t))
    \/ Running = None /\ (\E t \in Tasks : StopSendDisconnect(t))
    \/ Running = None /\ (\E t \in Tasks : StopClose(t))
    \/ Running = None /\ SendLoopStopObserved
    \/ Running = None /\ SendLoopHeartbeat(MaxWire)
    \/ Running = None /\ SendKeepAlive
    \/ Running = None /\ KeepAliveCallbackReturns
    \/ Running = None /\ SendControl
    \/ Running = None /\ ControlCallbackReturns
    \/ Running = None /\ SendLoopIdle
    \/ SendLoopBusyHeartbeat

SpecIdle == Init /\ [][NextIdle]_vars

(* C28: while the gate is set, the queue is empty and the receive loop is  *)
(* waiting for a datagram, the send loop is suspended at an await whenever *)
(* it has no heartbeat to send, so that the event loop can resume the      *)
(* receive loop: the send loop never holds the thread through its idle     *)
(* iterations.                                                             *)
C28_IdleSendLoopYields ==
    (game_data_done /\ ~stop_event /\ packet_queue = <<>> /\ pc["recv"] = "recv")
        => Running = None

\* ------------------------------------------------- the local player
(* C29: the alias in CONNECT_REQUEST_3 is the client's random alias; only  *)
(* a player of a received GAME_DATA who has that name becomes the local    *)
(* player, and from then on every CONTROL written carries that player's    *)
(* index.                                                                  *)
C29_LocalPlayerByAlias ==
    /\ \A p \in 1..Len(wire) :
         /\ wire[p].type = "CONNECT_REQUEST_3" => wire[p].alias = "random_alias"
         /\ wire[p].type = "CONTROL" => wire[p].player = PlayerIndexOf("random_alias")
    /\ game_player # NoPlayer =>
         /\ game_player = PlayerIndexOf("random_alias")
         /\ \E q \in 1..Len(game_world.players) : game_world.players[q] = "random_alias"

\* A CONTROL has been written in a session whose world holds the local
\* player and a player of another name.
C29_ControlOfLocalPlayer ==
    /\ \E p \in 1..Len(wire) : wire[p].type = "CONTROL" /\ wire[p].player = 7
    /\ \E q \in 1..Len(game_world.players) : game_world.players[q] = "other"

\* ------------------------------------------------- heartbeat without a player
\* The last datagram the body of the send loop wrote is a KEEP_ALIVE.
KeepAliveWrittenLast ==
    /\ SendLoopWritesAfter(0) # {}
    /\ \E p \in SendLoopWritesAfter(0) :
         /\ wire[p].type = "KEEP_ALIVE"
         /\ \A q \in SendLoopWritesAfter(0) : q =< p

(* C30: when the heartbeat comes to its CONTROL while the local player is  *)
(* unknown, the step raises with the KEEP_ALIVE of the heartbeat already   *)
(* written, writes nothing and leaves control_ticks as it was; and when    *)
(* the send loop has ended by that error and run its shutdown, a           *)
(* DISCONNECT is on the wire and the state is Disconnected.                *)
C30_UnknownPlayerHeartbeat ==
    /\ [][(pc["send"] = "keep_alive_cb" /\ pc'["send"] # "keep_alive_cb"
              /\ game_player = NoPlayer)
             => /\ pc'["send"] = "fin"
                /\ exc'["send"] # None
                /\ wire' = wire
                /\ control_ticks' = control_ticks
                /\ KeepAliveWrittenLast]_vars
    /\ []((exc["send"] = "AttributeError" /\ KeepAliveWrittenLast
             /\ hist.stopBy = "send" /\ pc["send"] = "done")
            => /\ DisconnectsWritten >= 1
               /\ state = DISCONNECTED)

\* ------------------------------------------------- the connect result
\* The handshake with either result packet, repeated by the host after a
\* failure.
NextConnect ==
    \/ StartCall
    \/ ConnectSendRequest
    \/ ConnectSendTimeout
    \/ ConnectRecvTimeout
    \/ ConnectRecvRaises
    \/ ConnectRecvRefused
    \/ ConnectRecvSuccessOf(ConnectResultPackets)
    \/ StartAgain

SpecConnect == InitPorts /\ [][NextConnect]_vars

(* C31: when the handshake ends with a result of Success the client holds  *)
(* the game_id, split_multiplier, public_id and private_id of that packet; *)
(* when it ends with another result, a timeout or an error, public_id and  *)
(* private_id stay 0 and the configured split_multiplier is unchanged.     *)
C31_ResultRecordedOnSuccessOnly ==
    /\ [][(pc["main"] \in {"connect_send", "connect_recv"}
              /\ pc'["main"] \notin {"connect_send", "connect_recv"})
             => IF state' = CONNECTED
                THEN /\ game_id' = hist'.result.game_id
                     /\ split_multiplier' = hist'.result.split_multiplier
                     /\ public_id' = hist'.result.public_id
                     /\ private_id' = hist'.result.private_id
                     /\ hist'.result \in ConnectResultPackets
                ELSE /\ public_id' = 0
                     /\ private_id' = 0
                     /\ split_multiplier' = "X8"
                     /\ split_multiplier' = split_multiplier]_vars
    /\ [](state # CONNECTED =>
             public_id = 0 /\ private_id = 0 /\ split_multiplier = "X8")

\* After a refused attempt the second packet was accepted and recorded.
C31_SecondPacketRecorded ==
    /\ state = CONNECTED
    /\ Len(hist.ports) = 2
    /\ public_id = 21
    /\ private_id = 22
    /\ game_id = 23
    /\ split_multiplier = "X64"

\* ------------------------------------------------- the client id
\* A client whose self.rng.nextInt() gave 0, or 33, for the client id.
InitClientId == \E cid \in {0, 33} : InitDraws(NotSignedIn, 0, cid, NoCalc)

\* A session in which the host enqueues packets and does not stop.
NextClientId == Handshake \/ Receive \/ Shutdown \/ Send(MaxWire) \/ HostEnqueue

SpecClientId == InitClientId /\ [][NextClientId]_vars

(* C32: the client_id in CONNECT_REQUEST_3 and in every KEEP_ALIVE,        *)
(* CONTROL, chat packet and DISCONNECT written after it is not 0, whatever *)
(* value was drawn at construction, and is the same in all of them.        *)
C32_ClientIdNeverZero ==
    \A p \in 1..Len(wire) :
        /\ wire[p].client_id # 0
        /\ wire[p].client_id = wire[1].client_id

\* The client drew 0, and a KEEP_ALIVE, a packet from the queue and the
\* DISCONNECT have been written after the request.
C32_ZeroRedrawnAndCarried ==
    /\ client_id = 34
    /\ \E p \in 1..Len(wire) : wire[p].type = "KEEP_ALIVE"
    /\ \E p \in 1..Len(wire) : wire[p].seq > 0
    /\ \E p \in 1..Len(wire) : wire[p].type = "DISCONNECT"

\* ------------------------------------------------- GameData.read: dots and items
\* The two bytes of dot_id_offset and of dot_count, and the byte of
\* item_id_offset and of item_count, of the GAME_DATA packets read.
DotIdOffsetSample == {<<0, 0>>, <<0, 1>>, <<127, 255>>, <<128, 0>>, <<255, 255>>}

DotCountSample == {<<0, 0>>, <<0, 1>>, <<0, 3>>, <<0, 255>>, <<128, 0>>, <<255, 255>>}

ItemIdOffsetSample == {0, 1, 127, 128, 255}

ItemCountSample == {0, 1, 2, 127, 128, 255}

\* The unsigned value of two bytes in network byte order.
Unsigned16(bytes) == bytes[1] * 256 + bytes[2]

\* stream.read_int16() of a NETWORK_ENDIAN stream: two's complement.
read_int16(bytes) ==
    IF Unsigned16(bytes) >= 32768 THEN Unsigned16(bytes) - 65536
    ELSE Unsigned16(bytes)

\* for i in range(dot_count): dot_id = i + dot_id_offset, and the same loop
\* for the items; range() of a negative count is empty.
IdsFrom(id_offset, count) == [i \in 1..count |-> (i - 1) + id_offset]

\* A GAME_DATA packet with no players and no ejects.
InitGameData ==
    \E o \in DotIdOffsetSample, c \in DotCountSample,
       p \in ItemIdOffsetSample, q \in ItemCountSample :
        InitClient(NotSignedIn, 0,
                   [op |-> "gamedata", dot_id_offset |-> o, dot_count |-> c,
                    item_id_offset |-> p, item_count |-> q,
                    dot_objects |-> <<>>, item_objects |-> <<>>, result |-> None])

\* GameData.read: the four header fields, then the dot and the item loop.
GameDataRead ==
    /\ calc.op = "gamedata"
    /\ calc.result = None
    /\ LET dot_id_offset == read_int16(calc.dot_id_offset)
           dot_count == read_int16(calc.dot_count)
           item_id_offset == SignedByte(calc.item_id_offset)
           item_count == SignedByte(calc.item_count)
       IN calc' = [calc EXCEPT !.dot_objects = IdsFrom(dot_id_offset, dot_count),
                               !.item_objects = IdsFrom(item_id_offset, item_count),
                               !.result = "read"]
    /\ UNCHANGED <<pc, exc, state, stop_event, game_data_done, event_loop, recv_loop,
                   packet_queue, control_ticks, game_player, gamedata_received,
                   public_id, private_id, socket_closed, pending, wire, hist,
                   game_world, reading, client_id, account_id, port_seed, port, game_id,
                   split_multiplier>>

NextGameData == GameDataRead

SpecGameData == InitGameData /\ [][NextGameData]_vars

(* C33: a GAME_DATA packet with unsigned 16-bit dot_id_offset o and        *)
(* dot_count c and unsigned 8-bit item_id_offset p and item_count q is     *)
(* read as exactly c dots with ids o, o + 1, ... and exactly q items with  *)
(* ids p, p + 1, ...                                                       *)
C33_DotAndItemIds ==
    (calc.op = "gamedata" /\ calc.result = "read") =>
        LET o == Unsigned16(calc.dot_id_offset)
            c == Unsigned16(calc.dot_count)
            p == calc.item_id_offset
            q == calc.item_count
        IN /\ Len(calc.dot_objects) = c
           /\ Len(calc.item_objects) = q
           /\ \A k \in 1..Len(calc.dot_objects) : calc.dot_objects[k] = o + (k - 1)
           /\ \A k \in 1..Len(calc.item_objects) : calc.item_objects[k] = p + (k - 1)

\* ------------------------------------------------- VariableLengthArray.encode
\* The longest array of which every filling is encoded.
MaxShort == 3

\* The values of the elements: 511 is a value that & 0xFF cuts to 255.
ElementSample == {0, 170, 187, 511}

\* Every array of up to MaxShort elements, and arrays of one value at the
\* lengths around the two limits (1 << 8) - 1 and (1 << 16) - 1.
ArraySample ==
    UNION { [1..n -> ElementSample] : n \in 0..MaxShort }
        \cup { [p \in 1..n |-> v] : n \in {255, 256, 65535, 65536}, v \in {0, 511} }

InitEncode ==
    \E size \in {1, 2}, values \in ArraySample :
        InitClient(NotSignedIn, 0,
                   [op |-> "encode", size |-> size, values |-> values,
                    bytes |-> <<>>, result |-> None])

\* VariableLengthArray(size, values).encode() returns.
EncodeReturns ==
    /\ calc.op = "encode"
    /\ calc.result = None
    /\ encode(calc.size, calc.values).raised = None
    /\ calc' = [calc EXCEPT !.bytes = encode(calc.size, calc.values).bytes,
                            !.result = "returned"]
    /\ UNCHANGED <<pc, exc, state, stop_event, game_data_done, event_loop, recv_loop,
                   packet_queue, control_ticks, game_player, gamedata_received,
                   public_id, private_id, socket_closed, pending, wire, hist,
                   game_world, reading, client_id, account_id, port_seed, port, game_id,
                   split_multiplier>>

\* VariableLengthArray(size, values).encode() raises.
EncodeRaises ==
    /\ calc.op = "encode"
    /\ calc.result = None
    /\ encode(calc.size, calc.values).raised # None
    /\ calc' = [calc EXCEPT !.result = encode(calc.size, calc.values).raised]
    /\ UNCHANGED <<pc, exc, state, stop_event, game_data_done, event_loop, recv_loop,
                   packet_queue, control_ticks, game_player, gamedata_received,
                   public_id, private_id, socket_closed, pending, wire, hist,
                   game_world, reading, client_id, account_id, port_seed, port, game_id,
                   split_multiplier>>

NextEncode == EncodeReturns \/ EncodeRaises

SpecEncode == InitEncode /\ [][NextEncode]_vars

\* The number that size bytes stand for, most significant byte first.
RECURSIVE BigEndianValue(_, _)
BigEndianValue(bytes, size) ==
    IF size = 0 THEN 0
    ELSE 256 * BigEndianValue(bytes, size - 1) + bytes[size]

(* C34: VariableLengthArray.encode with size 1 or 2 returns the number of  *)
(* elements as size bytes, most significant first, followed by one byte    *)
(* per element (size 1 and [0xAA, 0xBB] give 02 AA BB, size 2 and [] give  *)
(* 00 00), and for more than 2^(8 * size) - 1 elements it raises and       *)
(* returns no bytes.                                                       *)
C34_EncodeLengthPrefixed ==
    (calc.op = "encode" /\ calc.result # None) =>
        LET n == Len(calc.values)
            limit == IF calc.size = 1 THEN 255 ELSE 65535
        IN /\ (n > limit) <=> (calc.result = "ValueError")
           /\ (n > limit) => calc.bytes = <<>>
           /\ (n =< limit) =>
                 /\ calc.result = "returned"
                 /\ Len(calc.bytes) = calc.size + n
                 /\ BigEndianValue(calc.bytes, calc.size) = n
                 /\ \A p \in 1..n : /\ calc.bytes[calc.size + p] \in 0..255
                                    /\ calc.bytes[calc.size + p] = calc.values[p] % 256
           /\ (calc.size = 1 /\ calc.values = <<170, 187>>)
                 => calc.bytes = <<2, 170, 187>>
           /\ (calc.size = 2 /\ calc.values = <<>>) => calc.bytes = <<0, 0>>

\* An array of 256 elements was refused at size 1.
C34_TooLongRaised ==
    /\ calc.op = "encode"
    /\ calc.size = 1
    /\ Len(calc.values) = 256
    /\ calc.result = "ValueError"

\* ------------------------------------------------- MUTF8String.encode
\* The longest string encoded.
MaxChars == 3

\* The characters of the strings: "A", "h", "i" and U+00E9, whose UTF-8
\* encoding has two bytes.
CharSample == {65, 104, 105, 233}

\* MUTF8String.from_py_string(value) of a string of up to MaxChars characters.
InitMutf8 ==
    \E value \in UNION { [1..n -> CharSample] : n \in 0..MaxChars } :
        InitClient(NotSignedIn, 0,
                   [op |-> "mutf8", str |-> from_py_string(value),
                    bytes |-> <<>>, result |-> None])

\* MUTF8String.encode() returns.
Mutf8Encode ==
    /\ calc.op = "mutf8"
    /\ calc.result = None
    /\ calc' = [calc EXCEPT !.bytes = MUTF8Encode(calc.str),
                            !.result = "returned"]
    /\ UNCHANGED <<pc, exc, state, stop_event, game_data_done, event_loop, recv_loop,
                   packet_queue, control_ticks, game_player, gamedata_received,
                   public_id, private_id, socket_closed, pending, wire, hist,
                   game_world, reading, client_id, account_id, port_seed, port, game_id,
                   split_multiplier>>

NextMutf8 == Mutf8Encode

SpecMutf8 == InitMutf8 /\ [][NextMutf8]_vars

(* C35: for every string, MUTF8String.encode returns a 2-byte big-endian   *)
(* length L followed by exactly L bytes ("hi" gives 00 02 68 69 and the    *)
(* empty string gives 00 00), also when a character is encoded in more     *)
(* than one byte.                                                          *)
C35_LengthPrefixCountsBytes ==
    (calc.op = "mutf8" /\ calc.result = "returned") =>
        /\ Len(calc.bytes) >= 2
        /\ calc.bytes[1] * 256 + calc.bytes[2] = Len(calc.bytes) - 2
        /\ calc.str.value = <<104, 105>> => calc.bytes = <<0, 2, 104, 105>>
        /\ calc.str.value = <<>> => calc.bytes = <<0, 0>>

\* ------------------------------------------------- the shuffle at offset 13
\* Some pair of indices has the draw 0, so that y is offset 13.
DrewZero(indices) == \E k \in 1..Len(indices) : indices[k][2] = 0

(* C36, as stated: in every shuffled CONNECT_REQUEST_3 the byte at offset  *)
(* 13 is the byte the unshuffled packet has at offset 13.                  *)
C36_FirstBodyByteFixed ==
    (calc.op = "shuffle" /\ calc.result = "returned" /\ Len(calc.original) > HeaderLen) =>
        calc.packet_bytes[HeaderLen + 1] = calc.original[HeaderLen + 1]

(* C36: offset 13 is never the x of a swap, since every i is at least 1,   *)
(* but it is the y of the swap whose draw is 0; the byte at offset 13 of   *)
(* the shuffled packet is the original one whenever no draw was 0.         *)
C36_FirstBodyByteMovesOnlyAsPartner ==
    calc.op = "shuffle" =>
        /\ \A k \in 1..Len(calc.indices) : calc.indices[k][1] >= 1
        /\ (calc.result = "returned" /\ Len(calc.original) > HeaderLen
                /\ ~DrewZero(calc.indices))
             => calc.packet_bytes[HeaderLen + 1] = calc.original[HeaderLen + 1]

\* A request was shuffled into other bytes without a draw of 0.
C36_ShuffledWithoutZeroDraw ==
    /\ calc.op = "shuffle"
    /\ calc.result = "returned"
    /\ Len(calc.indices) >= 2
    /\ ~DrewZero(calc.indices)
    /\ calc.packet_bytes # calc.original

\* ------------------------------------------------- the type of the connect result
(* C37: a datagram received while connecting whose type byte is not        *)
(* CONNECT_RESULT_2 is not read as the connect result: public_id and       *)
(* private_id are set and the state becomes Connected only by a datagram   *)
(* of type CONNECT_RESULT_2.                                               *)
C37_OnlyConnectResultEstablishes ==
    (public_id # 0 \/ private_id # 0 \/ state = CONNECTED) => hist.gotSuccess

\* ------------------------------------------------- BRBoundsEvent.read, RadiationCloudEvent.read
\* The bytes of the events read.
EventByteSample == {0, 1, 50}

\* The bytes that follow the type byte: eight groups of three bytes, every
\* group the one before it plus step in each byte.
EventPayloads ==
    { [p \in 1..24 |-> g[((p - 1) % 3) + 1] + step * ((p - 1) \div 3)] :
          g \in [1..3 -> EventByteSample], step \in {0, 1} }

\* stream.read_uint16() at position pos of a NETWORK_ENDIAN stream.
read_uint16(data, pos) == data[pos] * 256 + data[pos + 1]

\* CompressedFloat.from_stream(max_range, stream).value at position pos:
\* cls.decompress(stream.read_uint16(), max_range)
from_stream(max_range, data, pos) == decompress(read_uint16(data, pos), max_range, 2)

\* CompressedFloat.from_3(max_range, stream).value at position pos:
\* (max_range * (b24_16 + b15_8 + b7_0)) / 1.6777215e7
from_3(max_range, data, pos) ==
    [num |-> max_range * (data[pos] * 65536 + data[pos + 1] * 256 + data[pos + 2]),
     den |-> 16777215]

\* An event whose type byte is type, handed to the reader of the class
\* reader, with client.game_world.map_size.to_map_size() equal to map_size.
InitEvent ==
    \E reader \in {"BR_BOUNDS", "RADIATION_CLOUD"},
       type \in {"BR_BOUNDS", "RADIATION_CLOUD"},
       map_size \in MaxRanges, data \in EventPayloads :
        InitClient(NotSignedIn, 0,
                   [op |-> "event", reader |-> reader, type |-> type,
                    map_size |-> map_size, data |-> data, player_id |-> 0,
                    fields |-> <<>>, consumed |-> 0, result |-> None])

\* BRBoundsEvent.read: the type check, then the eight bounds in the order
\* left, top, right, bottom, limited left, top, right, bottom.
BRBoundsRead ==
    /\ calc.op = "event"
    /\ calc.reader = "BR_BOUNDS"
    /\ calc.result = None
    /\ calc' = IF calc.type # "BR_BOUNDS"
               THEN [calc EXCEPT !.result = "ValueError"]
               ELSE [calc EXCEPT
                       !.fields = [k \in 1..8 |->
                                     from_stream(calc.map_size, calc.data, 2 * (k - 1) + 1)],
                       !.consumed = 16,
                       !.result = "returned"]
    /\ UNCHANGED <<pc, exc, state, stop_event, game_data_done, event_loop, recv_loop,
                   packet_queue, control_ticks, game_player, gamedata_received,
                   public_id, private_id, socket_closed, pending, wire, hist,
                   game_world, reading, client_id, account_id, port_seed, port, game_id,
                   split_multiplier>>

\* RadiationCloudEvent.read: the type check, then player_id, x_pos, y_pos
\* and time_remaining.
RadiationCloudRead ==
    /\ calc.op = "event"
    /\ calc.reader = "RADIATION_CLOUD"
    /\ calc.result = None
    /\ calc' = IF calc.type # "RADIATION_CLOUD"
               THEN [calc EXCEPT !.result = "ValueError"]
               ELSE [calc EXCEPT
                       !.player_id = SignedByte(calc.data[1]),
                       !.fields = <<from_stream(calc.map_size, calc.data, 2),
                                    from_stream(calc.map_size, calc.data, 4),
                                    from_stream(16, calc.data, 6)>>,
                       !.consumed = 7,
                       !.result = "returned"]
    /\ UNCHANGED <<pc, exc, state, stop_event, game_data_done, event_loop, recv_loop,
                   packet_queue, control_ticks, game_player, gamedata_received,
                   public_id, private_id, socket_closed, pending, wire, hist,
                   game_world, reading, client_id, account_id, port_seed, port, game_id,
                   split_multiplier>>

NextEvent == BRBoundsRead \/ RadiationCloudRead

SpecEvent == InitEvent /\ [][NextEvent]_vars

\* The two fractions are the same number; both denominators are multiples
\* of 255.
SameValue(v, w) == v.num * (w.den \div 255) = w.num * (v.den \div 255)

(* C38: a BRBounds event is decoded from the eight 3-byte compressed       *)
(* floats (24 bytes) that follow its type byte, in the order left, top,    *)
(* right, bottom, limited left, top, right, bottom, each scaled by the     *)
(* current map_size; a RadiationCloud event has its x and y decoded from   *)
(* the 3-byte compressed floats that follow the player byte, scaled by     *)
(* the current map_size.                                                   *)
C38_EventsReadThreeByteFloats ==
    (calc.op = "event" /\ calc.result = "returned") =>
        IF calc.reader = "BR_BOUNDS"
        THEN /\ calc.consumed = 24
             /\ Len(calc.fields) = 8
             /\ \A k \in 1..8 :
                  SameValue(calc.fields[k],
                            from_3(calc.map_size, calc.data, 3 * (k - 1) + 1))
        ELSE /\ SameValue(calc.fields[1], from_3(calc.map_size, calc.data, 2))
             /\ SameValue(calc.fields[2], from_3(calc.map_size, calc.data, 5))

====
